---- MODULE Spec2Model ----
(***************************************************************************)
(* State-machine model of the YouTube/OAuth views of videos/views.py and   *)
(* of the records of videos/models.py they read and write.                 *)
(*                                                                         *)
(* Every HTTP view is one atomic action: the parameters of the request and *)
(* the answers of Google's endpoints are the action's inputs, drawn with   *)
(* \E.  The background upload thread (_subir_video_youtube) is a process   *)
(* of its own, one action per database save / API call.                    *)
(***************************************************************************)
EXTENDS Integers, Sequences, FiniteSets, TLC

(***************************************************************************)
(* Bounds of the model.                                                    *)
(***************************************************************************)
NumClients == 2        \* browsers (Django sessions)
NumChannels == 2       \* YouTube channel ids Google can return
MaxUserId == 2         \* auth_user rows that can ever be inserted
MaxAccountId == 2      \* videos_youtubeaccount rows that can ever be inserted
MaxTime == 1           \* clock ticks

Clients == 1..NumClients
Channels == 1..NumChannels

(***************************************************************************)
(* Values.                                                                 *)
(***************************************************************************)
NoUser == 0            \* request.user is AnonymousUser
NoId == 0              \* key absent from the session
NoExpiry == -1         \* token_expira IS NULL
Absent == "<absent>"   \* key absent from a JSON answer (dict.get gives None)
ExpAbsent == -1        \* 'expires_in' absent from the answer
ExpBad == -2           \* 'expires_in' present but not a number
StatAbsent == -1       \* statistics key absent
StatBad == -2          \* statistics value that int() rejects
DefaultExpiresIn == 3600

(***************************************************************************)
(* The answers of the token endpoint: a timeout, another exception, or a   *)
(* JSON object.                                                            *)
(***************************************************************************)
NoResp ==
  [kind |-> "none", error |-> FALSE, access_token |-> Absent,
   refresh_token |-> Absent, expires_in |-> ExpAbsent]

GoodToken(at, rt, exp) ==
  [kind |-> "json", error |-> FALSE, access_token |-> at, refresh_token |-> rt,
   expires_in |-> exp]

\* answers without an 'error' field that carry a usable access_token
GoodTokenAnswers ==
  { GoodToken("at1", "rt1", ExpAbsent), GoodToken("at2", Absent, 1) }

\* an 'error' answer, answers without error and without a usable token or
\* lifetime, a timeout and another exception
BadTokenAnswers ==
  { [NoResp EXCEPT !.kind = "json", !.error = TRUE],
    GoodToken(Absent, Absent, 1),
    GoodToken("", "rt1", ExpAbsent),
    GoodToken("at1", Absent, ExpBad),
    [NoResp EXCEPT !.kind = "timeout"],
    [NoResp EXCEPT !.kind = "raises"] }

TokenAnswers == GoodTokenAnswers \cup BadTokenAnswers

(***************************************************************************)
(* The answers of channels?mine=true.                                      *)
(***************************************************************************)
StatsSamples ==
  { [subscriberCount |-> 5, videoCount |-> 2, viewCount |-> 9],
    [subscriberCount |-> StatAbsent, videoCount |-> StatBad, viewCount |-> 0] }

NoChan == [kind |-> "none", error |-> FALSE, items |-> <<>>]

ChannelItems == [id : Channels, statistics : StatsSamples]

ChannelAnswers ==
  {[kind |-> "json", error |-> FALSE, items |-> <<i>>] : i \in ChannelItems}
  \cup {[kind |-> "json", error |-> e, items |-> <<>>] : e \in BOOLEAN}
  \cup {[NoChan EXCEPT !.kind = k] : k \in {"timeout", "raises"}}

(***************************************************************************)
(* Uploaded files: the size and the extension os.path.splitext finds.      *)
(***************************************************************************)
MaxUploadSize == 128 * 1024 * 1024

NoFile == [present |-> FALSE, size |-> 0, ext |-> ""]

File(size, ext) == [present |-> TRUE, size |-> size, ext |-> ext]

Files ==
  { NoFile,
    File(MaxUploadSize, ".mp4"),
    File(MaxUploadSize + 1, ".mp4"),
    File(1, ".MOV"),
    File(1, ".txt") }

(***************************************************************************)
(* State.                                                                  *)
(***************************************************************************)
VARIABLES
  now,            \* the server's clock
  users,          \* auth_user rows: [id, username]
  accounts,       \* YouTubeAccount rows
  nextUserId,     \* next auth_user primary key
  nextAccountId,  \* next YouTubeAccount primary key
  sessions,       \* per client: [user, youtube_account_id]
  videos_subidos, \* VideoSubido rows
  nextVideoId,    \* next VideoSubido primary key
  jobs,           \* the threads running _subir_video_youtube, by VideoSubido id
  videos,         \* Video rows
  video_managers, \* VideoManager rows
  estadisticas,   \* EstadisticasVideo rows
  videos_guardados, \* VideoGuardado rows
  nextGuardadoId, \* next VideoGuardado primary key
  busquedas,      \* BusquedaVideo rows, oldest first
  guardando,      \* per client: the guardar_video_busqueda request in progress
  last            \* the request just served and its answer

vars == <<now, users, accounts, nextUserId, nextAccountId, sessions,
          videos_subidos, nextVideoId, jobs, videos, video_managers, estadisticas,
          videos_guardados, nextGuardadoId, busquedas, guardando, last>>

uploads == <<videos_subidos, nextVideoId, jobs>>

\* the tables of the video library and of the search history
library == <<videos, video_managers, estadisticas, videos_guardados, nextGuardadoId,
             busquedas, guardando>>

\* the accounts, the sessions and the uploads
core == <<now, users, accounts, nextUserId, nextAccountId, sessions, uploads>>

AnonymousSession == [user |-> NoUser, youtube_account_id |-> NoId]

NoRequest ==
  [op |-> "none", client |-> 0, outcome |-> "none", detail |-> "none",
   token_requests |-> 0, error |-> FALSE, code |-> FALSE,
   tok |-> NoResp, chan |-> NoChan, revoke |-> "none", success |-> FALSE,
   token_valido |-> FALSE, account |-> NoId, user |-> NoUser, status |-> 0,
   method |-> "GET", file |-> NoFile, video |-> NoId, started |-> 0,
   refresh |-> "none", mensaje |-> "", shown |-> {}, favorito |-> FALSE,
   video_id |-> "", query |-> "", count |-> 0, recientes |-> <<>>,
   api |-> "none", duracion_iso |-> <<>>, formateada |-> <<>>, legible |-> <<>>]

\* nobody is saving a video
NotSaving == [pc |-> "idle", video_id |-> "", user |-> NoUser]

LibraryEmpty ==
  /\ videos = {}
  /\ video_managers = {}
  /\ estadisticas = {}
  /\ videos_guardados = {}
  /\ nextGuardadoId = 1
  /\ busquedas = <<>>
  /\ guardando = [c \in 1..NumClients |-> NotSaving]

(***************************************************************************)
(* models.py                                                               *)
(***************************************************************************)
\* esta_autenticado with the comparison made inclusive
esta_autenticado_Inclusive(acc) ==
  IF acc.token_expira = NoExpiry THEN FALSE
  ELSE now <= acc.token_expira

\* YouTubeAccount.esta_autenticado
esta_autenticado(acc) ==
  IF acc.token_expira = NoExpiry THEN FALSE
  ELSE now < acc.token_expira

\* YouTubeAccount.objects.get(user=...) / .get(youtube_id=...): the matching rows
AccountsOfUser(u) == {a \in accounts : a.user = u}
AccountsOfChannel(ch) == {a \in accounts : a.youtube_id = ch}

\* the constraints of the table with user a plain ForeignKey
AccountInsertAllowed_ForeignKey(row) ==
  /\ AccountsOfChannel(row.youtube_id) = {}
  /\ row.access_token # Absent

\* the constraints of the table: OneToOneField(user), youtube_id unique=True,
\* access_token NOT NULL
AccountInsertAllowed(row) ==
  /\ AccountsOfUser(row.user) = {}
  /\ AccountsOfChannel(row.youtube_id) = {}
  /\ row.access_token # Absent

\* int(stats.get(key, 0)) with the ValueError/TypeError fallback
StatToInt(v) == IF v >= 0 THEN v ELSE 0

\* timedelta(seconds=expires_in) raises TypeError on a non-number
ExpiresInOk(tok) == tok.expires_in # ExpBad
ExpiresIn(tok) == IF tok.expires_in = ExpAbsent THEN DefaultExpiresIn ELSE tok.expires_in

(***************************************************************************)
(* Usernames: "youtube_<channel>" with an optional "_<n>" suffix, or the   *)
(* timestamp fallback.                                                     *)
(***************************************************************************)
UsernameCounterLimit == 100

UsernameExists(name) == \E u \in users : u.username = name

RECURSIVE PickUsername(_, _, _)
PickUsername(channel, username, counter) ==
  IF ~UsernameExists(username) THEN username
  ELSE IF counter + 1 > UsernameCounterLimit
       THEN [base |-> 0, n |-> now]
       ELSE PickUsername(channel, [base |-> channel, n |-> counter], counter + 1)

(***************************************************************************)
(* Init                                                                    *)
(***************************************************************************)
Init ==
  /\ now = 0
  /\ users = {}
  /\ accounts = {}
  /\ nextUserId = 1
  /\ nextAccountId = 1
  /\ sessions = [c \in Clients |-> AnonymousSession]
  /\ videos_subidos = {}
  /\ nextVideoId = 1
  /\ jobs = <<>>
  /\ LibraryEmpty
  /\ last = NoRequest

(***************************************************************************)
(* youtube_callback                                                        *)
(***************************************************************************)
\* the token stage ends on the error page
TokenStageFails(tok) ==
  \/ tok.kind # "json"
  \/ tok.error
  \/ tok.access_token \in {Absent, ""}
  \/ ~ExpiresInOk(tok)

\* the channel stage ends on the error page
ChannelStageFails(ch) ==
  \/ ch.kind # "json"
  \/ ch.error
  \/ ch.items = <<>>

CallbackErrorPage(c, detail, nreq, error, code, tok, ch) ==
  /\ last' = [NoRequest EXCEPT !.op = "youtube_callback", !.client = c,
                               !.outcome = "error_page", !.detail = detail,
                               !.token_requests = nreq, !.error = error, !.code = code,
                               !.tok = tok, !.chan = ch, !.status = 200]
  /\ UNCHANGED <<library, now, users, accounts, nextUserId, nextAccountId, sessions, uploads>>

\* PASO 4-7: create or update the records, log in, redirect
CallbackSave(c, error, code, tok, ch) ==
  LET channel == ch.items[1]
      channel_id == channel.id
      access_token == tok.access_token
      refresh_token == IF tok.refresh_token = Absent THEN "" ELSE tok.refresh_token
      token_expira == now + ExpiresIn(tok)
      subscribers == StatToInt(channel.statistics.subscriberCount)
      video_count == StatToInt(channel.statistics.videoCount)
      view_count == StatToInt(channel.statistics.viewCount)
      authenticated == sessions[c].user # NoUser
      existing == AccountsOfChannel(channel_id)
      done(acc_id, user_id) ==
        /\ sessions' = [sessions EXCEPT ![c] =
              [user |-> IF authenticated THEN sessions[c].user ELSE user_id,
               youtube_account_id |-> acc_id]]
        /\ last' = [NoRequest EXCEPT !.op = "youtube_callback", !.client = c,
                                     !.outcome = "redirect_dashboard", !.detail = "saved",
                                     !.token_requests = 1, !.error = error,
                                     !.code = code, !.tok = tok, !.chan = ch,
                                     !.account = acc_id, !.user = user_id,
                                     !.status = 302]
  IN
  IF existing # {}
  THEN \* update the existing account
       \E old \in existing :
         LET upd == [old EXCEPT !.access_token = access_token,
                                !.refresh_token = IF refresh_token # "" THEN refresh_token
                                                  ELSE old.refresh_token,
                                !.token_expira = token_expira,
                                !.suscriptores = subscribers,
                                !.videos_publicados = video_count,
                                !.vistas_totales = view_count]
         IN /\ accounts' = (accounts \ {old}) \cup {upd}
            /\ done(old.id, old.user)
            /\ UNCHANGED <<library, now, users, nextUserId, nextAccountId, uploads>>
  ELSE
    LET django_user == IF authenticated THEN sessions[c].user ELSE nextUserId
        username == PickUsername(channel_id, [base |-> channel_id, n |-> 0], 1)
        row == [id |-> nextAccountId, user |-> django_user, youtube_id |-> channel_id,
                access_token |-> access_token, refresh_token |-> refresh_token,
                token_expira |-> token_expira, suscriptores |-> subscribers,
                videos_publicados |-> video_count, vistas_totales |-> view_count]
    IN
    IF authenticated /\ ~AccountInsertAllowed(row)
    THEN \* IntegrityError, caught by the except of PASO 4
         CallbackErrorPage(c, "save_error", 1, error, code, tok, ch)
    ELSE /\ nextAccountId <= MaxAccountId
         /\ authenticated \/ nextUserId <= MaxUserId
         /\ users' = IF authenticated THEN users
                     ELSE users \cup {[id |-> nextUserId, username |-> username]}
         /\ nextUserId' = IF authenticated THEN nextUserId ELSE nextUserId + 1
         /\ accounts' = accounts \cup {row}
         /\ nextAccountId' = nextAccountId + 1
         /\ done(row.id, django_user)
         /\ UNCHANGED <<library, now, uploads>>

\* PASO 2-7: the token exchange, the channel lookup and the save
CallbackExchange_SaveTokensEarly(c, error, code) ==
  \E tok \in TokenAnswers :
    IF TokenStageFails(tok)
    THEN CallbackErrorPage(c, "token_error", 1, error, code, tok, NoChan)
    ELSE \E ch \in ChannelAnswers :
      IF ChannelStageFails(ch)
      THEN /\ accounts' = {IF a.user = sessions[c].user
                            THEN [a EXCEPT !.access_token = tok.access_token] ELSE a
                            : a \in accounts}
           /\ last' = [NoRequest EXCEPT !.op = "youtube_callback", !.client = c,
                                        !.outcome = "error_page", !.detail = "channel_error",
                                        !.token_requests = 1, !.error = error, !.code = code,
                                        !.tok = tok, !.chan = ch, !.status = 200]
           /\ UNCHANGED <<library, now, users, nextUserId, nextAccountId, sessions, uploads>>
      ELSE CallbackSave(c, error, code, tok, ch)

CallbackExchange(c, error, code) ==
  \E tok \in TokenAnswers :
    IF TokenStageFails(tok)
    THEN CallbackErrorPage(c, "token_error", 1, error, code, tok, NoChan)
    ELSE \E ch \in ChannelAnswers :
      IF ChannelStageFails(ch)
      THEN CallbackErrorPage(c, "channel_error", 1, error, code, tok, ch)
      ELSE CallbackSave(c, error, code, tok, ch)

youtube_callback_NoErrorCheck(c) ==
  \E error \in BOOLEAN, code \in BOOLEAN :
    IF ~code
    THEN CallbackErrorPage(c, "no_code", 0, error, code, NoResp, NoChan)
    ELSE CallbackExchange(c, error, code)

youtube_callback(c) ==
  \E error \in BOOLEAN, code \in BOOLEAN :
    IF error
    THEN CallbackErrorPage(c, "authorization_error", 0, error, code, NoResp, NoChan)
    ELSE IF ~code
    THEN CallbackErrorPage(c, "no_code", 0, error, code, NoResp, NoChan)
    ELSE CallbackExchange(c, error, code)

(***************************************************************************)
(* @login_required: an anonymous request is redirected to the login page.  *)
(***************************************************************************)
LoginRequired(c, op) ==
  /\ last' = [NoRequest EXCEPT !.op = op, !.client = c, !.outcome = "redirect_login",
                               !.status = 302]
  /\ UNCHANGED <<library, now, users, accounts, nextUserId, nextAccountId, sessions, uploads>>

(***************************************************************************)
(* youtube_logout                                                          *)
(***************************************************************************)
RevokeAnswers == {"ok", "error_status", "raises"}

\* youtube_logout without the try/except around the revocation request
youtube_logout_RevokeUnguarded(c) ==
  LET u == sessions[c].user IN
  IF u = NoUser THEN LoginRequired(c, "youtube_logout")
  ELSE
    \/ /\ AccountsOfUser(u) = {}
       /\ last' = [NoRequest EXCEPT !.op = "youtube_logout", !.client = c,
                                    !.outcome = "redirect_inicio", !.status = 302,
                                    !.user = u]
       /\ sessions' = [sessions EXCEPT ![c] = AnonymousSession]
       /\ UNCHANGED <<library, now, users, accounts, nextUserId, nextAccountId, uploads>>
    \/ \E acc \in AccountsOfUser(u), revoke \in RevokeAnswers :
         IF revoke = "raises"
         THEN /\ last' = [NoRequest EXCEPT !.op = "youtube_logout", !.client = c,
                                           !.outcome = "server_error", !.status = 500,
                                           !.revoke = revoke, !.account = acc.id,
                                           !.user = u]
              /\ UNCHANGED <<library, now, users, accounts, nextUserId, nextAccountId, sessions,
                             uploads>>
         ELSE /\ accounts' = accounts \ {acc}
              /\ videos_subidos' = {v \in videos_subidos : v.youtube_account # acc.id}
              /\ last' = [NoRequest EXCEPT !.op = "youtube_logout", !.client = c,
                                           !.outcome = "redirect_inicio", !.status = 302,
                                           !.revoke = revoke, !.account = acc.id,
                                           !.user = u]
              /\ sessions' = [sessions EXCEPT ![c] = AnonymousSession]
              /\ UNCHANGED <<library, now, users, nextUserId, nextAccountId, nextVideoId, jobs>>

youtube_logout(c) ==
  LET u == sessions[c].user IN
  IF u = NoUser THEN LoginRequired(c, "youtube_logout")
  ELSE
    /\ \/ /\ AccountsOfUser(u) = {}
          /\ last' = [NoRequest EXCEPT !.op = "youtube_logout", !.client = c,
                                       !.outcome = "redirect_inicio", !.status = 302,
                                       !.user = u]
          /\ UNCHANGED <<accounts, videos_subidos>>
       \/ \E acc \in AccountsOfUser(u), revoke \in RevokeAnswers :
            \* delete() cascades to the rows that point to the account
            /\ accounts' = accounts \ {acc}
            /\ videos_subidos' = {v \in videos_subidos : v.youtube_account # acc.id}
            /\ last' = [NoRequest EXCEPT !.op = "youtube_logout", !.client = c,
                                         !.outcome = "redirect_inicio", !.status = 302,
                                         !.revoke = revoke, !.account = acc.id,
                                         !.user = u]
    \* logout(request) flushes the session
    /\ sessions' = [sessions EXCEPT ![c] = AnonymousSession]
    /\ UNCHANGED <<library, now, users, nextUserId, nextAccountId, nextVideoId, jobs>>

(***************************************************************************)
(* refresh_youtube_token                                                   *)
(***************************************************************************)
RefreshAnswers == {t \in TokenAnswers : t.kind # "timeout"}

\* refresh_youtube_token without the check for a stored refresh_token
refresh_youtube_token_NoTokenCheck(c) ==
  LET u == sessions[c].user
      answer(acc_id, status, success, nreq, tok) ==
        last' = [NoRequest EXCEPT !.op = "refresh_youtube_token", !.client = c,
                                  !.outcome = "json", !.status = status,
                                  !.success = success, !.token_requests = nreq,
                                  !.tok = tok, !.account = acc_id, !.user = u,
                                  !.refresh = IF acc_id = NoId THEN "none"
                                              ELSE IF success THEN "ok" ELSE "failed"]
  IN
  IF u = NoUser THEN LoginRequired(c, "refresh_youtube_token")
  ELSE IF AccountsOfUser(u) = {}
  THEN /\ answer(NoId, 400, FALSE, 0, NoResp)
       /\ UNCHANGED <<library, now, users, accounts, nextUserId, nextAccountId, sessions, uploads>>
  ELSE \E youtube_account \in AccountsOfUser(u) :
    \E token_response \in RefreshAnswers :
      IF token_response.kind # "json" \/ token_response.error
         \/ ~ExpiresInOk(token_response) \/ token_response.access_token = Absent
      THEN /\ answer(youtube_account.id, 500, FALSE, 1, token_response)
           /\ UNCHANGED <<library, now, users, accounts, nextUserId, nextAccountId, sessions, uploads>>
      ELSE /\ accounts' = (accounts \ {youtube_account}) \cup
                 {[youtube_account EXCEPT
                     !.access_token = token_response.access_token,
                     !.token_expira = now + ExpiresIn(token_response)]}
           /\ answer(youtube_account.id, 200, TRUE, 1, token_response)
           /\ UNCHANGED <<library, now, users, nextUserId, nextAccountId, sessions, uploads>>

refresh_youtube_token(c) ==
  LET u == sessions[c].user
      answer(acc_id, status, success, nreq, tok) ==
        last' = [NoRequest EXCEPT !.op = "refresh_youtube_token", !.client = c,
                                  !.outcome = "json", !.status = status,
                                  !.success = success, !.token_requests = nreq,
                                  !.tok = tok, !.account = acc_id, !.user = u,
                                  !.refresh = IF acc_id = NoId THEN "none"
                                              ELSE IF success THEN "ok" ELSE "failed"]
  IN
  IF u = NoUser THEN LoginRequired(c, "refresh_youtube_token")
  ELSE IF AccountsOfUser(u) = {}
  THEN /\ answer(NoId, 400, FALSE, 0, NoResp)
       /\ UNCHANGED <<library, now, users, accounts, nextUserId, nextAccountId, sessions, uploads>>
  ELSE \E youtube_account \in AccountsOfUser(u) :
    IF youtube_account.refresh_token = ""
    THEN /\ answer(youtube_account.id, 401, FALSE, 0, NoResp)
         /\ UNCHANGED <<library, now, users, accounts, nextUserId, nextAccountId, sessions, uploads>>
    ELSE \E token_response \in RefreshAnswers :
      IF token_response.kind # "json"
      THEN /\ answer(youtube_account.id, 500, FALSE, 1, token_response)
           /\ UNCHANGED <<library, now, users, accounts, nextUserId, nextAccountId, sessions, uploads>>
      ELSE IF token_response.error
      THEN /\ answer(youtube_account.id, 401, FALSE, 1, token_response)
           /\ UNCHANGED <<library, now, users, accounts, nextUserId, nextAccountId, sessions, uploads>>
      ELSE IF ~ExpiresInOk(token_response) \/ token_response.access_token = Absent
      THEN \* TypeError of timedelta, or IntegrityError of save(): access_token is NOT NULL
           /\ answer(youtube_account.id, 500, FALSE, 1, token_response)
           /\ UNCHANGED <<library, now, users, accounts, nextUserId, nextAccountId, sessions, uploads>>
      ELSE /\ accounts' = (accounts \ {youtube_account}) \cup
                 {[youtube_account EXCEPT
                     !.access_token = token_response.access_token,
                     !.token_expira = now + ExpiresIn(token_response)]}
           /\ answer(youtube_account.id, 200, TRUE, 1, token_response)
           /\ UNCHANGED <<library, now, users, nextUserId, nextAccountId, sessions, uploads>>

(***************************************************************************)
(* check_auth_status                                                       *)
(***************************************************************************)
check_auth_status(c) ==
  LET u == sessions[c].user IN
  IF u = NoUser THEN LoginRequired(c, "check_auth_status")
  ELSE
    /\ \/ /\ AccountsOfUser(u) = {}
          /\ last' = [NoRequest EXCEPT !.op = "check_auth_status", !.client = c,
                                       !.outcome = "json", !.status = 200]
       \/ \E youtube_account \in AccountsOfUser(u) :
            last' = [NoRequest EXCEPT !.op = "check_auth_status", !.client = c,
                                      !.outcome = "json", !.status = 200,
                                      !.success = TRUE,
                                      !.token_valido = esta_autenticado(youtube_account),
                                      !.account = youtube_account.id]
    /\ UNCHANGED <<library, now, users, accounts, nextUserId, nextAccountId, sessions, uploads>>

(***************************************************************************)
(* The clock.                                                              *)
(***************************************************************************)
Tick ==
  /\ now < MaxTime
  /\ now' = now + 1
  /\ last' = [NoRequest EXCEPT !.op = "tick"]
  /\ UNCHANGED <<library, users, accounts, nextUserId, nextAccountId, sessions, uploads>>

Next ==
  \/ \E c \in Clients : youtube_callback(c)
  \/ \E c \in Clients : youtube_logout(c)
  \/ \E c \in Clients : refresh_youtube_token(c)
  \/ \E c \in Clients : check_auth_status(c)
  \/ Tick

Spec == Init /\ [][Next]_vars

(***************************************************************************)
(* Uploads: VideoSubido rows and the threads of _subir_video_youtube.      *)
(***************************************************************************)
MaxVideoId == 1        \* VideoSubido rows that can ever be inserted
PollLimit == 30        \* for i in range(30)
NoTime == -1           \* fin_subida IS NULL

\* str.lower() on the extensions that occur
Lower(ext) ==
  CASE ext = ".MP4" -> ".mp4"
    [] ext = ".MOV" -> ".mov"
    [] ext = ".AVI" -> ".avi"
    [] ext = ".WMV" -> ".wmv"
    [] ext = ".FLV" -> ".flv"
    [] ext = ".WEBM" -> ".webm"
    [] ext = ".TXT" -> ".txt"
    [] OTHER -> ext

allowed_extensions == {".mp4", ".mov", ".avi", ".wmv", ".flv", ".webm"}

\* _validar_archivo_video without the size check
_validar_archivo_video_NoSizeCheck(video_file) ==
  IF Lower(video_file.ext) \notin allowed_extensions THEN FALSE
  ELSE TRUE

_validar_archivo_video(video_file) ==
  IF video_file.size > MaxUploadSize THEN FALSE
  ELSE IF Lower(video_file.ext) \notin allowed_extensions THEN FALSE
  ELSE TRUE

\* the id YouTube gives to the video inserted by an upload job: fresh per job
VideoIdOf(j) == "yt" \o ToString(j)

\* the constraints of the table on INSERT: youtube_video_id unique=True and
\* the foreign key to the account
VideoInsertAllowed(row) ==
  /\ \A v \in videos_subidos : v.youtube_video_id # row.youtube_video_id
  /\ \E a \in accounts : a.id = row.youtube_account

\* Model.save() of an object with a primary key: UPDATE, and INSERT when no
\* row has the key any more
VideoSaveAllowed(obj) ==
  IF \E v \in videos_subidos : v.id = obj.id
  THEN \A v \in videos_subidos :
         v.id # obj.id => v.youtube_video_id # obj.youtube_video_id
  ELSE VideoInsertAllowed(obj)

VideoSaved(obj) == {v \in videos_subidos : v.id # obj.id} \cup {obj}

\* VideoSubido.objects.create(..., estado='pending'): youtube_video_id is a
\* CharField without default, so the new row holds ''
NewVideoSubido(youtube_account) ==
  [id |-> nextVideoId, youtube_account |-> youtube_account.id,
   youtube_video_id |-> "", estado |-> "pending", mensaje_error |-> "",
   fin_subida |-> NoTime]

NewJob(row) ==
  [pc |-> "start", obj |-> row, polls |-> 0, insert_calls |-> 0]

\* _refresh_youtube_token_internal keeping the old expiry
_refresh_youtube_token_internal_KeepsExpiry(youtube_account, token_response) ==
  IF youtube_account.refresh_token = ""
  THEN [success |-> FALSE, account |-> youtube_account, token_requests |-> 0]
  ELSE IF token_response.kind # "json" \/ token_response.error
          \/ ~ExpiresInOk(token_response) \/ token_response.access_token = Absent
  THEN [success |-> FALSE, account |-> youtube_account, token_requests |-> 1]
  ELSE [success |-> TRUE,
        account |-> [youtube_account EXCEPT
                       !.access_token = token_response.access_token],
        token_requests |-> 1]

(***************************************************************************)
(* _refresh_youtube_token_internal: the result and the row as stored       *)
(* afterwards, given the answer the token endpoint holds ready.            *)
(***************************************************************************)
_refresh_youtube_token_internal(youtube_account, token_response) ==
  IF youtube_account.refresh_token = ""
  THEN [success |-> FALSE, account |-> youtube_account, token_requests |-> 0]
  ELSE IF token_response.kind # "json"
  THEN [success |-> FALSE, account |-> youtube_account, token_requests |-> 1]
  ELSE IF token_response.error
  THEN [success |-> FALSE, account |-> youtube_account, token_requests |-> 1]
  ELSE IF ~ExpiresInOk(token_response) \/ token_response.access_token = Absent
  THEN \* TypeError of timedelta, or IntegrityError of save()
       [success |-> FALSE, account |-> youtube_account, token_requests |-> 1]
  ELSE [success |-> TRUE,
        account |-> [youtube_account EXCEPT
                       !.access_token = token_response.access_token,
                       !.token_expira = now + ExpiresIn(token_response)],
        token_requests |-> 1]

(***************************************************************************)
(* The creation of the record and the start of the thread, shared by       *)
(* procesar_subida_ajax and _procesar_subida_video.                        *)
(***************************************************************************)
CreateAndStart(youtube_account) ==
  LET row == NewVideoSubido(youtube_account) IN
  /\ nextVideoId <= MaxVideoId
  /\ videos_subidos' = videos_subidos \cup {row}
  /\ nextVideoId' = nextVideoId + 1
  /\ jobs' = jobs @@ (row.id :> NewJob(row))

(***************************************************************************)
(* procesar_subida_ajax                                                    *)
(***************************************************************************)
procesar_subida_ajax(c) ==
  LET u == sessions[c].user IN
  IF u = NoUser THEN LoginRequired(c, "procesar_subida_ajax")
  ELSE \E method \in {"GET", "POST"} :
    \* request.FILES: only a POST carries a file
    \E video_file \in IF method = "POST" THEN Files ELSE {NoFile} :
    LET answer(acc_id, status, success, video, started) ==
          last' = [NoRequest EXCEPT !.op = "procesar_subida_ajax", !.client = c,
                                    !.outcome = IF status = 500 THEN "server_error"
                                                ELSE "json",
                                    !.status = status,
                                    !.success = success, !.account = acc_id,
                                    !.user = u, !.method = method, !.file = video_file,
                                    !.video = video, !.started = started]
    IN
    /\ UNCHANGED <<library, now, users, accounts, nextUserId, nextAccountId, sessions>>
    /\ IF method # "POST"
       THEN answer(NoId, 405, FALSE, NoId, 0) /\ UNCHANGED uploads
       ELSE IF AccountsOfUser(u) = {}
       THEN answer(NoId, 400, FALSE, NoId, 0) /\ UNCHANGED uploads
       ELSE \E youtube_account \in AccountsOfUser(u) :
         IF ~esta_autenticado(youtube_account)
         THEN answer(youtube_account.id, 401, FALSE, NoId, 0) /\ UNCHANGED uploads
         ELSE IF ~video_file.present
         THEN answer(youtube_account.id, 400, FALSE, NoId, 0) /\ UNCHANGED uploads
         ELSE IF ~_validar_archivo_video(video_file)
         THEN answer(youtube_account.id, 400, FALSE, NoId, 0) /\ UNCHANGED uploads
         ELSE IF ~VideoInsertAllowed(NewVideoSubido(youtube_account))
         THEN \* IntegrityError out of the view: Django answers 500
              answer(youtube_account.id, 500, FALSE, NoId, 0) /\ UNCHANGED uploads
         ELSE /\ CreateAndStart(youtube_account)
              /\ answer(youtube_account.id, 200, TRUE, nextVideoId, 1)

(***************************************************************************)
(* subir_video, with _procesar_subida_video for its POST                   *)
(***************************************************************************)
subir_video(c) ==
  LET u == sessions[c].user IN
  IF u = NoUser THEN LoginRequired(c, "subir_video")
  ELSE
    LET answer(acc_id, outcome, status, method, file, video, started, nreq, tok, refresh) ==
          last' = [NoRequest EXCEPT !.op = "subir_video", !.client = c,
                                    !.outcome = outcome, !.status = status,
                                    !.account = acc_id, !.user = u,
                                    !.method = method, !.file = file,
                                    !.video = video, !.started = started,
                                    !.token_requests = nreq, !.tok = tok,
                                    !.refresh = refresh]
    IN
    /\ UNCHANGED <<library, now, users, nextUserId, nextAccountId, sessions>>
    /\ IF AccountsOfUser(u) = {}
       THEN /\ answer(NoId, "redirect_youtube_login", 302, "GET", NoFile, NoId, 0, 0,
                      NoResp, "none")
            /\ UNCHANGED <<accounts, uploads>>
       ELSE \E stored \in AccountsOfUser(u) :
         \E token_response \in
              IF esta_autenticado(stored) \/ stored.refresh_token = ""
              THEN {NoResp} ELSE RefreshAnswers :
           LET expired == ~esta_autenticado(stored)
               refresh_result == _refresh_youtube_token_internal(stored, token_response)
               nreq == IF expired THEN refresh_result.token_requests ELSE 0
               youtube_account == IF expired THEN refresh_result.account ELSE stored
               refreshed == IF expired THEN "ok" ELSE "none"
           IN
           IF expired /\ ~refresh_result.success
           THEN /\ answer(stored.id, "error_page", 200, "GET", NoFile, NoId, 0, nreq,
                          token_response, "failed")
                /\ UNCHANGED <<accounts, uploads>>
           ELSE
             /\ accounts' = (accounts \ {stored}) \cup {youtube_account}
             /\ \E method \in {"GET", "POST"} :
                  IF method # "POST"
                  THEN /\ answer(stored.id, "form", 200, method, NoFile, NoId, 0, nreq,
                                 token_response, refreshed)
                       /\ UNCHANGED uploads
                  ELSE \E video_file \in Files :
                    IF ~video_file.present \/ ~_validar_archivo_video(video_file)
                    THEN /\ answer(stored.id, "form_error", 200, method, video_file, NoId,
                                   0, nreq, token_response, refreshed)
                         /\ UNCHANGED uploads
                    ELSE IF ~VideoInsertAllowed(NewVideoSubido(youtube_account))
                    THEN \* IntegrityError out of the view: Django answers 500
                         /\ answer(stored.id, "server_error", 500, method, video_file,
                                   NoId, 0, nreq, token_response, refreshed)
                         /\ UNCHANGED uploads
                    ELSE /\ CreateAndStart(youtube_account)
                         /\ answer(stored.id, "redirect_estado_subida", 302, method,
                                   video_file, nextVideoId, 1, nreq, token_response,
                                   refreshed)

(***************************************************************************)
(* _subir_video_youtube, one action per save or API call of the thread.    *)
(***************************************************************************)
JobStep(j, detail) ==
  last' = [NoRequest EXCEPT !.op = "_subir_video_youtube", !.video = j,
                            !.detail = detail]

\* the except branch: mark the record failed and save it; a save that raises
\* again ends the thread with an unhandled exception
JobExcept(j, running, obj, detail) ==
  LET failed == [obj EXCEPT !.estado = "failed", !.mensaje_error = "exception",
                            !.fin_subida = now]
  IN
  /\ IF VideoSaveAllowed(failed)
     THEN /\ videos_subidos' = VideoSaved(failed)
          /\ jobs' = [running EXCEPT ![j].pc = "done", ![j].obj = failed]
     ELSE /\ videos_subidos' = videos_subidos
          /\ jobs' = [running EXCEPT ![j].pc = "crashed", ![j].obj = failed]
  /\ JobStep(j, detail)

\* estado = 'uploading'; save()
JobStart(j) ==
  /\ jobs[j].pc = "start"
  /\ LET obj == [jobs[j].obj EXCEPT !.estado = "uploading"] IN
     IF VideoSaveAllowed(obj)
     THEN /\ videos_subidos' = VideoSaved(obj)
          /\ jobs' = [jobs EXCEPT ![j].pc = "insert", ![j].obj = obj]
          /\ JobStep(j, "uploading")
     ELSE JobExcept(j, jobs, obj, "save_raised")
  /\ UNCHANGED <<library, now, users, accounts, nextUserId, nextAccountId, sessions, nextVideoId>>

\* JobInsert with the insert call tried again after it raised
JobInsert_RetryOnError(j) ==
  /\ jobs[j].pc = "insert"
  /\ \E outcome \in {"prepare_raises", "insert_raises", "inserted"} :
       LET calls == IF outcome = "prepare_raises" THEN 0 ELSE 1
           counted == [jobs EXCEPT ![j].insert_calls = @ + calls]
           obj == [jobs[j].obj EXCEPT !.youtube_video_id = VideoIdOf(j),
                                      !.estado = "processing"]
       IN
       IF outcome = "inserted" /\ VideoSaveAllowed(obj)
       THEN /\ videos_subidos' = VideoSaved(obj)
            /\ jobs' = [counted EXCEPT ![j].pc = "poll", ![j].obj = obj]
            /\ JobStep(j, "processing")
       ELSE IF outcome = "insert_raises"
       THEN /\ videos_subidos' = videos_subidos
            /\ jobs' = counted
            /\ JobStep(j, "retry")
       ELSE JobExcept(j, counted, jobs[j].obj, outcome)
  /\ UNCHANGED <<library, now, users, accounts, nextUserId, nextAccountId, sessions, nextVideoId>>

\* JobInsert marking the record published as soon as the insert call returns
JobInsert_PublishesAtOnce(j) ==
  /\ jobs[j].pc = "insert"
  /\ \E outcome \in {"prepare_raises", "insert_raises", "inserted"} :
       LET calls == IF outcome = "prepare_raises" THEN 0 ELSE 1
           counted == [jobs EXCEPT ![j].insert_calls = @ + calls]
           obj == [jobs[j].obj EXCEPT !.youtube_video_id = VideoIdOf(j),
                                      !.estado = "published"]
       IN
       IF outcome = "inserted" /\ VideoSaveAllowed(obj)
       THEN /\ videos_subidos' = VideoSaved(obj)
            /\ jobs' = [counted EXCEPT ![j].pc = "poll", ![j].obj = obj]
            /\ JobStep(j, "processing")
       ELSE JobExcept(j, counted, IF outcome = "inserted" THEN obj ELSE jobs[j].obj,
                      IF outcome = "inserted" THEN "save_raised" ELSE outcome)
  /\ UNCHANGED <<library, now, users, accounts, nextUserId, nextAccountId, sessions, nextVideoId>>

\* Credentials, build, MediaFileUpload, then videos().insert(...).execute()
JobInsert(j) ==
  /\ jobs[j].pc = "insert"
  /\ \E outcome \in {"prepare_raises", "insert_raises", "inserted"} :
       LET calls == IF outcome = "prepare_raises" THEN 0 ELSE 1
           counted == [jobs EXCEPT ![j].insert_calls = @ + calls]
           obj == [jobs[j].obj EXCEPT !.youtube_video_id = VideoIdOf(j),
                                      !.estado = "processing"]
       IN
       IF outcome = "inserted" /\ VideoSaveAllowed(obj)
       THEN /\ videos_subidos' = VideoSaved(obj)
            /\ jobs' = [counted EXCEPT ![j].pc = "poll", ![j].obj = obj]
            /\ JobStep(j, "processing")
       ELSE JobExcept(j, counted, IF outcome = "inserted" THEN obj ELSE jobs[j].obj,
                      IF outcome = "inserted" THEN "save_raised" ELSE outcome)
  /\ UNCHANGED <<library, now, users, accounts, nextUserId, nextAccountId, sessions, nextVideoId>>

\* JobPoll as a loop without an end: the turn counter starts over instead of
\* ending the loop
JobPoll_StartsOver(j) ==
  /\ jobs[j].pc = "poll"
  /\ \E status \in {"processed", "failed", "uploaded", "raises"} :
       LET polled == [jobs EXCEPT ![j].polls = (@ + 1) % PollLimit]
           obj == CASE status = "processed" ->
                         [jobs[j].obj EXCEPT !.estado = "published", !.fin_subida = now]
                    [] status = "failed" ->
                         [jobs[j].obj EXCEPT !.estado = "failed",
                                             !.mensaje_error = "processing_failed",
                                             !.fin_subida = now]
                    [] OTHER -> [jobs[j].obj EXCEPT !.fin_subida = now]
           closing == status \in {"processed", "failed"}
       IN
       IF status = "uploaded"
       THEN /\ jobs' = polled
            /\ videos_subidos' = videos_subidos
            /\ JobStep(j, "waiting")
       ELSE IF closing /\ VideoSaveAllowed(obj)
       THEN /\ videos_subidos' = VideoSaved(obj)
            /\ jobs' = [polled EXCEPT ![j].pc = "done", ![j].obj = obj]
            /\ JobStep(j, status)
       ELSE JobExcept(j, polled, IF closing THEN obj ELSE jobs[j].obj,
                      IF closing THEN "save_raised" ELSE "raises")
  /\ UNCHANGED <<library, now, users, accounts, nextUserId, nextAccountId, sessions, nextVideoId>>

\* one turn of the polling loop: sleep, videos().list(...).execute(); the last
\* turn, a break or an exception is followed by the closing save
JobPoll(j) ==
  /\ jobs[j].pc = "poll"
  /\ jobs[j].polls < PollLimit
  /\ \E status \in {"processed", "failed", "uploaded", "raises"} :
       LET polled == [jobs EXCEPT ![j].polls = @ + 1]
           obj == CASE status = "processed" ->
                         [jobs[j].obj EXCEPT !.estado = "published", !.fin_subida = now]
                    [] status = "failed" ->
                         [jobs[j].obj EXCEPT !.estado = "failed",
                                             !.mensaje_error = "processing_failed",
                                             !.fin_subida = now]
                    [] OTHER -> [jobs[j].obj EXCEPT !.fin_subida = now]
           closing == status \in {"processed", "failed"}
                      \/ (status = "uploaded" /\ jobs[j].polls + 1 = PollLimit)
       IN
       IF status = "uploaded" /\ ~closing
       THEN /\ jobs' = polled
            /\ videos_subidos' = videos_subidos
            /\ JobStep(j, "waiting")
       ELSE IF closing /\ VideoSaveAllowed(obj)
       THEN /\ videos_subidos' = VideoSaved(obj)
            /\ jobs' = [polled EXCEPT ![j].pc = "done", ![j].obj = obj]
            /\ JobStep(j, status)
       ELSE JobExcept(j, polled, IF closing THEN obj ELSE jobs[j].obj,
                      IF closing THEN "save_raised" ELSE "raises")
  /\ UNCHANGED <<library, now, users, accounts, nextUserId, nextAccountId, sessions, nextVideoId>>

_subir_video_youtube(j) ==
  \/ JobStart(j)
  \/ JobInsert(j)
  \/ JobPoll(j)

(***************************************************************************)
(* The upload views over linked accounts: the state after client 1 has     *)
(* linked channel 1 at time 0 (one or two callbacks for the same channel   *)
(* give the three token combinations).                                     *)
(***************************************************************************)
LinkedTokens ==
  { [access_token |-> "at1", refresh_token |-> "rt1", token_expira |-> DefaultExpiresIn],
    [access_token |-> "at2", refresh_token |-> "", token_expira |-> 1],
    [access_token |-> "at2", refresh_token |-> "rt1", token_expira |-> 1] }

InitUpload ==
  /\ now = 0
  /\ users = {[id |-> 1, username |-> [base |-> 1, n |-> 0]]}
  /\ \E t \in LinkedTokens :
       accounts = {[id |-> 1, user |-> 1, youtube_id |-> 1,
                    access_token |-> t.access_token, refresh_token |-> t.refresh_token,
                    token_expira |-> t.token_expira, suscriptores |-> 5,
                    videos_publicados |-> 2, vistas_totales |-> 9]}
  /\ nextUserId = 2
  /\ nextAccountId = 2
  /\ sessions = [c \in Clients |-> IF c = 1 THEN [user |-> 1, youtube_account_id |-> 1]
                                   ELSE AnonymousSession]
  /\ videos_subidos = {}
  /\ nextVideoId = 1
  /\ jobs = <<>>
  /\ LibraryEmpty
  /\ last = NoRequest

NextUpload ==
  \/ \E c \in Clients : procesar_subida_ajax(c)
  \/ \E c \in Clients : subir_video(c)
  \/ \E c \in Clients : refresh_youtube_token(c)
  \/ \E c \in Clients : youtube_logout(c)
  \/ \E j \in DOMAIN jobs : _subir_video_youtube(j)
  \/ Tick

SpecUpload == InitUpload /\ [][NextUpload]_vars

\* threading.Thread(...).start(): a started thread keeps being scheduled
\* until _subir_video_youtube returns or raises
SpecUploadFair ==
  /\ InitUpload
  /\ [][NextUpload]_vars
  /\ \A j \in 1..MaxVideoId : WF_vars(j \in DOMAIN jobs /\ _subir_video_youtube(j))

(***************************************************************************)
(* The status view over accounts as the admin can leave them: token_expira *)
(* is null=True, blank=True.                                               *)
(***************************************************************************)
MaxExpiry == 3

InitStatus ==
  /\ now \in 0..MaxTime
  /\ users = {[id |-> 1, username |-> [base |-> 1, n |-> 0]]}
  /\ \E e \in {NoExpiry} \cup (0..MaxExpiry), rt \in {"", "rt1"} :
       accounts = {[id |-> 1, user |-> 1, youtube_id |-> 1, access_token |-> "at1",
                    refresh_token |-> rt, token_expira |-> e, suscriptores |-> 0,
                    videos_publicados |-> 0, vistas_totales |-> 0]}
  /\ nextUserId = 2
  /\ nextAccountId = 2
  /\ sessions = [c \in Clients |-> IF c = 1 THEN [user |-> 1, youtube_account_id |-> 1]
                                   ELSE AnonymousSession]
  /\ videos_subidos = {}
  /\ nextVideoId = 1
  /\ jobs = <<>>
  /\ LibraryEmpty
  /\ last = NoRequest

NextStatus ==
  \/ \E c \in Clients : check_auth_status(c)
  \/ \E c \in Clients : refresh_youtube_token(c)
  \/ Tick

SpecStatus == InitStatus /\ [][NextStatus]_vars

(***************************************************************************)
(* The video library: Video rows with their VideoManager and               *)
(* EstadisticasVideo rows, and the VideoGuardado rows saved from searches. *)
(***************************************************************************)
MaxGuardadoId == 2     \* VideoGuardado rows that can ever be inserted
MaxRequestId == 2      \* the video_id of a URL

RequestIds == 1..MaxRequestId
YouTubeIds == {"v1"}             \* ids of videos on YouTube
NotasSamples == {"", "n"}        \* request.POST.get('notas', '')

\* the answers of videos?part=...&id=...: an item, no items, or an exception
\* (a timeout, or a statistic that int() rejects)
VideoAnswers == {"item", "no_items", "raises"}
ItemTitulo == "t2"               \* snippet.title of the item
ItemVistas == 7                  \* statistics.viewCount of the item

NotFound == "Video no encontrado"
MethodNotAllowed == "Método no permitido"
AlreadySaved == "Ya tienes este video guardado"
IdRequired == "ID de video requerido"

\* Video.objects.get(id=video_id, agregado_por=request.user): the matching rows
OwnVideo(u, video_id) == {v \in videos : v.id = video_id /\ v.agregado_por = u}

\* VideoManager.objects.get(video=video, usuario_propietario=request.user)
ManagerOf(video, u) ==
  {m \in video_managers : m.video = video.id /\ m.usuario_propietario = u}

\* VideoManager.video is a OneToOneField
ManagerInsertAllowed(row) == \A m \in video_managers : m.video # row.video

\* VideoManager.objects.create(video=video, usuario_propietario=request.user)
NewManager(video, u) ==
  [video |-> video.id, usuario_propietario |-> u, favorito |-> FALSE, notas |-> ""]

\* VideoGuardado.objects.get(id=video_id, usuario=request.user)
OwnGuardado(u, video_id) ==
  {g \in videos_guardados : g.id = video_id /\ g.usuario = u}

\* the table without unique_together
GuardadoInsertAllowed_NoConstraint(row) == TRUE

\* unique_together = ['video_id', 'usuario']
GuardadoInsertAllowed(row) ==
  \A g \in videos_guardados : ~(g.video_id = row.video_id /\ g.usuario = row.usuario)

\* the answer of a view of the library
Answer(op, c, u, video_id, status, outcome, success, mensaje, shown) ==
  [NoRequest EXCEPT !.op = op, !.client = c, !.user = u, !.video = video_id,
                    !.status = status, !.outcome = outcome, !.success = success,
                    !.mensaje = mensaje, !.shown = shown]

\* the except Video.DoesNotExist / VideoGuardado.DoesNotExist branch of the
\* JSON views
NotFoundJson(op, c, u, video_id) ==
  /\ last' = Answer(op, c, u, video_id, 404, "json", FALSE, NotFound, {})
  /\ UNCHANGED <<core, library>>

\* the same branch of the views that render a page
NotFoundPage(op, c, u, video_id) ==
  /\ last' = Answer(op, c, u, video_id, 200, "error_page", FALSE, NotFound, {})
  /\ UNCHANGED <<core, library>>

\* an exception no handler of the view catches: Django answers 500
ServerError(op, c, u, video_id) ==
  /\ last' = Answer(op, c, u, video_id, 500, "server_error", FALSE, "", {})
  /\ UNCHANGED <<core, library>>

\* @login_required of the library views
Anonymous(c, op) ==
  /\ last' = [NoRequest EXCEPT !.op = op, !.client = c, !.outcome = "redirect_login",
                               !.status = 302]
  /\ UNCHANGED <<core, library>>

(***************************************************************************)
(* detalle_video                                                           *)
(***************************************************************************)
detalle_video(c) ==
  LET u == sessions[c].user IN
  IF u = NoUser THEN Anonymous(c, "detalle_video")
  ELSE \E video_id \in RequestIds :
    IF OwnVideo(u, video_id) = {} THEN NotFoundPage("detalle_video", c, u, video_id)
    ELSE \E video \in OwnVideo(u, video_id) :
      IF ManagerOf(video, u) = {} /\ ~ManagerInsertAllowed(NewManager(video, u))
      THEN \* IntegrityError of VideoManager.objects.create
           ServerError("detalle_video", c, u, video_id)
      ELSE
        /\ video_managers' = IF ManagerOf(video, u) = {}
                             THEN video_managers \cup {NewManager(video, u)}
                             ELSE video_managers
        \* the page shows the video and the user's other videos of its category
        /\ last' = Answer("detalle_video", c, u, video_id, 200, "page", TRUE, "",
                          {<<"Video", v.id>> : v \in {w \in videos : w.agregado_por = u}})
        /\ UNCHANGED <<core, videos, estadisticas, videos_guardados, nextGuardadoId,
                       busquedas, guardando>>

(***************************************************************************)
(* actualizar_estadisticas_video                                           *)
(***************************************************************************)
actualizar_estadisticas_video(c) ==
  LET u == sessions[c].user
      op == "actualizar_estadisticas_video"
  IN
  IF u = NoUser THEN Anonymous(c, op)
  ELSE \E video_id \in RequestIds :
    IF OwnVideo(u, video_id) = {} THEN NotFoundJson(op, c, u, video_id)
    ELSE \E video \in OwnVideo(u, video_id) :
      IF AccountsOfUser(u) = {}
      THEN /\ last' = Answer(op, c, u, video_id, 200, "json", TRUE, "",
                             {<<"Video", video.id>>})
           /\ UNCHANGED <<core, library>>
      ELSE \E youtube_account \in AccountsOfUser(u) :
        IF ~esta_autenticado(youtube_account)
        THEN /\ last' = Answer(op, c, u, video_id, 401, "json", FALSE,
                               "Token de YouTube expirado", {})
             /\ UNCHANGED <<core, library>>
        ELSE \E api \in VideoAnswers :
          IF api = "raises"
          THEN \* except Exception
               /\ last' = [Answer(op, c, u, video_id, 500, "json", FALSE,
                                  "Error inesperado", {}) EXCEPT !.api = api]
               /\ UNCHANGED <<core, library>>
          ELSE IF api = "no_items"
          THEN \* the view returns None: Django raises ValueError
               /\ last' = [Answer(op, c, u, video_id, 500, "server_error", FALSE, "", {})
                             EXCEPT !.api = api]
               /\ UNCHANGED <<core, library>>
          ELSE
            LET updated == [video EXCEPT !.titulo = ItemTitulo, !.vistas = ItemVistas]
                hoy == now
            IN
            /\ videos' = (videos \ {video}) \cup {updated}
            \* the row of today is updated or created
            /\ estadisticas' =
                 {e \in estadisticas : ~(e.video = video.id /\ e.fecha = hoy)}
                 \cup {[video |-> video.id, fecha |-> hoy, vistas |-> updated.vistas]}
            /\ last' = [Answer(op, c, u, video_id, 200, "json", TRUE, "",
                               {<<"Video", video.id>>}) EXCEPT !.api = api]
            /\ UNCHANGED <<core, video_managers, videos_guardados, nextGuardadoId,
                           busquedas, guardando>>

(***************************************************************************)
(* toggle_favorito_video                                                   *)
(***************************************************************************)
toggle_favorito_video(c) ==
  LET u == sessions[c].user
      op == "toggle_favorito_video"
  IN
  IF u = NoUser THEN Anonymous(c, op)
  ELSE \E video_id \in RequestIds :
    IF OwnVideo(u, video_id) = {} THEN NotFoundJson(op, c, u, video_id)
    ELSE \E video \in OwnVideo(u, video_id) :
      IF ManagerOf(video, u) = {} /\ ~ManagerInsertAllowed(NewManager(video, u))
      THEN \* IntegrityError of VideoManager.objects.create
           ServerError(op, c, u, video_id)
      ELSE \E video_manager \in IF ManagerOf(video, u) = {} THEN {NewManager(video, u)}
                                ELSE ManagerOf(video, u) :
        LET flipped == [video_manager EXCEPT !.favorito = ~video_manager.favorito] IN
        /\ video_managers' = (video_managers \ {video_manager}) \cup {flipped}
        /\ last' = [Answer(op, c, u, video_id, 200, "json", TRUE, "", {})
                      EXCEPT !.favorito = flipped.favorito]
        /\ UNCHANGED <<core, videos, estadisticas, videos_guardados, nextGuardadoId,
                       busquedas, guardando>>

(***************************************************************************)
(* guardar_notas_video                                                     *)
(***************************************************************************)
guardar_notas_video(c) ==
  LET u == sessions[c].user
      op == "guardar_notas_video"
  IN
  IF u = NoUser THEN Anonymous(c, op)
  ELSE \E video_id \in RequestIds, method \in {"GET", "POST"} :
    IF method # "POST"
    THEN /\ last' = [Answer(op, c, u, video_id, 405, "json", FALSE, MethodNotAllowed, {})
                       EXCEPT !.method = method]
         /\ UNCHANGED <<core, library>>
    ELSE IF OwnVideo(u, video_id) = {}
    THEN /\ last' = [Answer(op, c, u, video_id, 404, "json", FALSE, NotFound, {})
                       EXCEPT !.method = method]
         /\ UNCHANGED <<core, library>>
    ELSE \E video \in OwnVideo(u, video_id) :
      IF ManagerOf(video, u) = {} /\ ~ManagerInsertAllowed(NewManager(video, u))
      THEN /\ last' = [Answer(op, c, u, video_id, 500, "server_error", FALSE, "", {})
                         EXCEPT !.method = method]
           /\ UNCHANGED <<core, library>>
      ELSE \E video_manager \in IF ManagerOf(video, u) = {} THEN {NewManager(video, u)}
                                ELSE ManagerOf(video, u) :
        \E notas \in NotasSamples :
          /\ video_managers' = (video_managers \ {video_manager})
                               \cup {[video_manager EXCEPT !.notas = notas]}
          /\ last' = [Answer(op, c, u, video_id, 200, "json", TRUE, "", {})
                        EXCEPT !.method = method]
          /\ UNCHANGED <<core, videos, estadisticas, videos_guardados, nextGuardadoId,
                         busquedas, guardando>>

(***************************************************************************)
(* eliminar_video                                                          *)
(***************************************************************************)
\* eliminar_video without the owner in the lookup
eliminar_video_AnyOwner(c) ==
  LET u == sessions[c].user
      op == "eliminar_video"
  IN
  IF u = NoUser THEN Anonymous(c, op)
  ELSE \E video_id \in RequestIds :
    IF {v \in videos : v.id = video_id} = {} THEN NotFoundJson(op, c, u, video_id)
    ELSE \E video \in {v \in videos : v.id = video_id} :
      /\ videos' = videos \ {video}
      /\ video_managers' = {m \in video_managers : m.video # video.id}
      /\ estadisticas' = {e \in estadisticas : e.video # video.id}
      /\ last' = Answer(op, c, u, video_id, 200, "json", TRUE, "", {})
      /\ UNCHANGED <<core, videos_guardados, nextGuardadoId, busquedas, guardando>>

eliminar_video(c) ==
  LET u == sessions[c].user
      op == "eliminar_video"
  IN
  IF u = NoUser THEN Anonymous(c, op)
  ELSE \E video_id \in RequestIds :
    IF OwnVideo(u, video_id) = {} THEN NotFoundJson(op, c, u, video_id)
    ELSE \E video \in OwnVideo(u, video_id) :
      LET kept == video_managers \ ManagerOf(video, u) IN
      /\ IF \E w \in videos : w.youtube_id = video.youtube_id /\ w.id # video_id
         THEN \* only unlink the video from the user
              /\ videos' = (videos \ {video}) \cup {[video EXCEPT !.agregado_por = NoUser]}
              /\ video_managers' = kept
              /\ estadisticas' = estadisticas
         ELSE \* video.delete() cascades to its manager and statistics
              /\ videos' = videos \ {video}
              /\ video_managers' = {m \in kept : m.video # video.id}
              /\ estadisticas' = {e \in estadisticas : e.video # video.id}
      /\ last' = Answer(op, c, u, video_id, 200, "json", TRUE, "", {})
      /\ UNCHANGED <<core, videos_guardados, nextGuardadoId, busquedas, guardando>>

(***************************************************************************)
(* VideoAdmin: the change form of the admin site edits agregado_por.       *)
(***************************************************************************)
VideoAdmin ==
  \E video \in videos, owner \in {NoUser} \cup {u.id : u \in users} :
    /\ owner # video.agregado_por
    /\ videos' = (videos \ {video}) \cup {[video EXCEPT !.agregado_por = owner]}
    /\ last' = [NoRequest EXCEPT !.op = "VideoAdmin", !.video = video.id, !.user = owner]
    /\ UNCHANGED <<core, video_managers, estadisticas, videos_guardados, nextGuardadoId,
                   busquedas, guardando>>

(***************************************************************************)
(* _actualizar_info_video_youtube: the row as stored afterwards.  Every    *)
(* exception is swallowed.                                                 *)
(***************************************************************************)
_actualizar_info_video_youtube(video, u, api) ==
  IF \E a \in AccountsOfUser(u) : esta_autenticado(a)
  THEN IF api = "item"
       THEN [video EXCEPT !.titulo = ItemTitulo, !.vistas = ItemVistas]
       ELSE video
  ELSE video

\* the answers the videos endpoint can give to a request of user u: none is
\* asked for without an unexpired token
VideoAnswersFor(u) ==
  IF \E a \in AccountsOfUser(u) : esta_autenticado(a) THEN VideoAnswers ELSE {"none"}

(***************************************************************************)
(* detalle_video_guardado                                                  *)
(***************************************************************************)
detalle_video_guardado(c) ==
  LET u == sessions[c].user
      op == "detalle_video_guardado"
  IN
  IF u = NoUser THEN Anonymous(c, op)
  ELSE \E video_id \in RequestIds :
    IF OwnGuardado(u, video_id) = {} THEN NotFoundPage(op, c, u, video_id)
    ELSE \E video \in OwnGuardado(u, video_id), api \in VideoAnswersFor(u) :
      LET updated == _actualizar_info_video_youtube(video, u, api) IN
      /\ videos_guardados' = (videos_guardados \ {video}) \cup {updated}
      \* the page shows the video and the user's other videos of its category
      /\ last' = [Answer(op, c, u, video_id, 200, "page", TRUE, "",
                         {<<"VideoGuardado", g.id>> :
                            g \in {w \in videos_guardados : w.usuario = u}})
                    EXCEPT !.api = api]
      /\ UNCHANGED <<core, videos, video_managers, estadisticas, nextGuardadoId,
                     busquedas, guardando>>

(***************************************************************************)
(* toggle_favorito_video_guardado                                          *)
(***************************************************************************)
toggle_favorito_video_guardado(c) ==
  LET u == sessions[c].user
      op == "toggle_favorito_video_guardado"
  IN
  IF u = NoUser THEN Anonymous(c, op)
  ELSE \E video_id \in RequestIds :
    IF OwnGuardado(u, video_id) = {} THEN NotFoundJson(op, c, u, video_id)
    ELSE \E video \in OwnGuardado(u, video_id) :
      LET flipped == [video EXCEPT !.favorito = ~video.favorito] IN
      /\ videos_guardados' = (videos_guardados \ {video}) \cup {flipped}
      /\ last' = [Answer(op, c, u, video_id, 200, "json", TRUE, "", {})
                    EXCEPT !.favorito = flipped.favorito]
      /\ UNCHANGED <<core, videos, video_managers, estadisticas, nextGuardadoId,
                     busquedas, guardando>>

(***************************************************************************)
(* actualizar_video_guardado                                               *)
(***************************************************************************)
actualizar_video_guardado(c) ==
  LET u == sessions[c].user
      op == "actualizar_video_guardado"
  IN
  IF u = NoUser THEN Anonymous(c, op)
  ELSE \E video_id \in RequestIds :
    IF OwnGuardado(u, video_id) = {} THEN NotFoundJson(op, c, u, video_id)
    ELSE \E video \in OwnGuardado(u, video_id) :
      IF AccountsOfUser(u) = {}
      THEN \* _actualizar_info_video_public_api does nothing
           /\ last' = Answer(op, c, u, video_id, 200, "json", TRUE, "",
                             {<<"VideoGuardado", video.id>>})
           /\ UNCHANGED <<core, library>>
      ELSE IF ~\E a \in AccountsOfUser(u) : esta_autenticado(a)
      THEN /\ last' = Answer(op, c, u, video_id, 401, "json", FALSE,
                             "Token de YouTube expirado", {})
           /\ UNCHANGED <<core, library>>
      ELSE \E api \in VideoAnswersFor(u) :
        LET updated == _actualizar_info_video_youtube(video, u, api) IN
        /\ videos_guardados' = (videos_guardados \ {video}) \cup {updated}
        /\ last' = [Answer(op, c, u, video_id, 200, "json", TRUE, "",
                           {<<"VideoGuardado", video.id>>}) EXCEPT !.api = api]
        /\ UNCHANGED <<core, videos, video_managers, estadisticas, nextGuardadoId,
                       busquedas, guardando>>

(***************************************************************************)
(* eliminar_video_guardado                                                 *)
(***************************************************************************)
eliminar_video_guardado(c) ==
  LET u == sessions[c].user
      op == "eliminar_video_guardado"
  IN
  IF u = NoUser THEN Anonymous(c, op)
  ELSE \E video_id \in RequestIds :
    IF OwnGuardado(u, video_id) = {} THEN NotFoundJson(op, c, u, video_id)
    ELSE \E video \in OwnGuardado(u, video_id) :
      /\ videos_guardados' = videos_guardados \ {video}
      /\ last' = Answer(op, c, u, video_id, 200, "json", TRUE, "", {})
      /\ UNCHANGED <<core, videos, video_managers, estadisticas, nextGuardadoId,
                     busquedas, guardando>>

(***************************************************************************)
(* guardar_notas_video_guardado                                            *)
(***************************************************************************)
guardar_notas_video_guardado(c) ==
  LET u == sessions[c].user
      op == "guardar_notas_video_guardado"
  IN
  IF u = NoUser THEN Anonymous(c, op)
  ELSE \E video_id \in RequestIds, method \in {"GET", "POST"} :
    IF method # "POST"
    THEN /\ last' = [Answer(op, c, u, video_id, 405, "json", FALSE, MethodNotAllowed, {})
                       EXCEPT !.method = method]
         /\ UNCHANGED <<core, library>>
    ELSE IF OwnGuardado(u, video_id) = {}
    THEN /\ last' = [Answer(op, c, u, video_id, 404, "json", FALSE, NotFound, {})
                       EXCEPT !.method = method]
         /\ UNCHANGED <<core, library>>
    ELSE \E video \in OwnGuardado(u, video_id), notas \in NotasSamples :
      /\ videos_guardados' = (videos_guardados \ {video})
                             \cup {[video EXCEPT !.notas = notas]}
      /\ last' = [Answer(op, c, u, video_id, 200, "json", TRUE, "", {})
                    EXCEPT !.method = method]
      /\ UNCHANGED <<core, videos, video_managers, estadisticas, nextGuardadoId,
                     busquedas, guardando>>

(***************************************************************************)
(* estado_subida_video                                                     *)
(***************************************************************************)
\* VideoSubido.objects.get(id=video_id, youtube_account__user=request.user)
OwnSubido(u, video_id) ==
  {v \in videos_subidos :
     v.id = video_id /\ \E a \in accounts : a.id = v.youtube_account /\ a.user = u}

estado_subida_video(c) ==
  LET u == sessions[c].user
      op == "estado_subida_video"
  IN
  IF u = NoUser THEN Anonymous(c, op)
  ELSE \E video_id \in RequestIds :
    IF OwnSubido(u, video_id) = {}
    THEN /\ last' = Answer(op, c, u, video_id, 404, "json", FALSE, NotFound, {})
         /\ UNCHANGED <<core, library>>
    ELSE \E video_subido \in OwnSubido(u, video_id) :
      /\ last' = Answer(op, c, u, video_id, 200, "json", TRUE, "",
                        {<<"VideoSubido", video_subido.id>>})
      /\ UNCHANGED <<core, library>>

(***************************************************************************)
(* guardar_video_busqueda.  Requests are served concurrently, so the view  *)
(* is two steps: up to the exists() query, and from there to the answer.   *)
(***************************************************************************)
\* request.body: not JSON, JSON without video_id, or JSON with a video_id
Bodies == {"bad_json", "no_video_id"} \cup YouTubeIds

\* _obtener_info_video_youtube: the information, or the exception that
\* leaves it (only YouTubeAccount.DoesNotExist is caught)
_obtener_info_video_youtube(api) ==
  IF api = "raises" THEN [raised |-> TRUE, titulo |-> "", vistas |-> 0]
  ELSE IF api = "item" THEN [raised |-> FALSE, titulo |-> ItemTitulo, vistas |-> ItemVistas]
  ELSE [raised |-> FALSE, titulo |-> "", vistas |-> 0]

GuardarAnswer(c, u, method, body, status, success, mensaje, id) ==
  [NoRequest EXCEPT !.op = "guardar_video_busqueda", !.client = c, !.user = u,
                    !.method = method, !.outcome = "json", !.status = status,
                    !.success = success, !.mensaje = mensaje,
                    !.video_id = body, !.video = id]

\* the method check, json.loads, the video_id check and the exists() query
GuardarCheck(c) ==
  LET u == sessions[c].user IN
  /\ guardando[c].pc = "idle"
  /\ IF u = NoUser THEN Anonymous(c, "guardar_video_busqueda")
     ELSE \E method \in {"GET", "POST"} :
       \E body \in IF method = "POST" THEN Bodies ELSE {"no_video_id"} :
         IF method # "POST"
         THEN /\ last' = GuardarAnswer(c, u, method, body, 405, FALSE, MethodNotAllowed, NoId)
              /\ UNCHANGED <<core, library>>
         ELSE IF body = "bad_json"
         THEN \* json.loads raises: except Exception
              /\ last' = GuardarAnswer(c, u, method, body, 500, FALSE, "Error al guardar video",
                                       NoId)
              /\ UNCHANGED <<core, library>>
         ELSE IF body = "no_video_id"
         THEN /\ last' = GuardarAnswer(c, u, method, body, 200, FALSE, IdRequired, NoId)
              /\ UNCHANGED <<core, library>>
         ELSE IF \E g \in videos_guardados : g.video_id = body /\ g.usuario = u
         THEN /\ last' = GuardarAnswer(c, u, method, body, 200, FALSE, AlreadySaved, NoId)
              /\ UNCHANGED <<core, library>>
         ELSE /\ guardando' = [guardando EXCEPT ![c] =
                                 [pc |-> "checked", video_id |-> body, user |-> u]]
              /\ last' = [NoRequest EXCEPT !.op = "guardar_video_busqueda", !.client = c,
                                           !.user = u, !.method = method,
                                           !.outcome = "in_progress", !.video_id = body]
              /\ UNCHANGED <<core, videos, video_managers, estadisticas, videos_guardados,
                             nextGuardadoId, busquedas>>

\* _obtener_info_video_youtube and VideoGuardado.objects.create
GuardarCreate(c) ==
  LET u == guardando[c].user
      video_id == guardando[c].video_id
  IN
  /\ guardando[c].pc = "checked"
  /\ guardando' = [guardando EXCEPT ![c] = NotSaving]
  /\ \E api \in VideoAnswersFor(u) :
       LET video_info == _obtener_info_video_youtube(api)
           row == [id |-> nextGuardadoId, video_id |-> video_id, usuario |-> u,
                   titulo |-> video_info.titulo, vistas |-> video_info.vistas,
                   favorito |-> FALSE, notas |-> ""]
       IN
       IF video_info.raised \/ ~GuardadoInsertAllowed(row)
       THEN \* except Exception, also for the IntegrityError of create
            /\ last' = [GuardarAnswer(c, u, "POST", video_id, 500, FALSE,
                                      "Error al guardar video", NoId) EXCEPT !.api = api]
            /\ UNCHANGED <<core, videos, video_managers, estadisticas, videos_guardados,
                           nextGuardadoId, busquedas>>
       ELSE /\ nextGuardadoId <= MaxGuardadoId
            /\ videos_guardados' = videos_guardados \cup {row}
            /\ nextGuardadoId' = nextGuardadoId + 1
            /\ last' = [GuardarAnswer(c, u, "POST", video_id, 200, TRUE, "", row.id)
                          EXCEPT !.api = api]
            /\ UNCHANGED <<core, videos, video_managers, estadisticas, busquedas>>

guardar_video_busqueda(c) ==
  \/ GuardarCheck(c)
  \/ GuardarCreate(c)

(***************************************************************************)
(* buscar_videos                                                           *)
(***************************************************************************)
MaxBusquedas == 12     \* BusquedaVideo rows that can ever be inserted
RecentLimit == 10      \* [:10]

\* the answers of the search endpoint: an 'error' object, a list of items
\* (its length), or an exception
SearchAnswers ==
  {[kind |-> "json", error |-> TRUE, items |-> 0],
   [kind |-> "json", error |-> FALSE, items |-> 0],
   [kind |-> "json", error |-> FALSE, items |-> 2],
   [kind |-> "raises", error |-> FALSE, items |-> 0]}

NoSearch == [kind |-> "none", error |-> FALSE, items |-> 0]

\* busquedas_recientes without the filter on the user
busquedas_recientes_Everyone(u, rows) ==
  LET newest_first == [i \in 1..Len(rows) |-> Len(rows) + 1 - i]
  IN SubSeq(newest_first, 1,
            IF Len(newest_first) < RecentLimit THEN Len(newest_first) ELSE RecentLimit)

\* BusquedaVideo.objects.filter(usuario=u).order_by('-fecha_busqueda')[:10],
\* as positions in the table
busquedas_recientes(u, rows) ==
  LET newest_first == [i \in 1..Len(rows) |-> Len(rows) + 1 - i]
      own(i) == rows[i].usuario = u
      mine == SelectSeq(newest_first, own)
  IN SubSeq(mine, 1, IF Len(mine) < RecentLimit THEN Len(mine) ELSE RecentLimit)

buscar_videos(c) ==
  LET u == sessions[c].user
      op == "buscar_videos"
  IN
  IF u = NoUser THEN Anonymous(c, op)
  ELSE IF AccountsOfUser(u) = {}
  THEN /\ last' = Answer(op, c, u, NoId, 200, "error_page", FALSE, "Cuenta no vinculada", {})
       /\ UNCHANGED <<core, library>>
  ELSE \E stored \in AccountsOfUser(u) :
    \E token_response \in
         IF esta_autenticado(stored) \/ stored.refresh_token = ""
         THEN {NoResp} ELSE RefreshAnswers :
      LET expired == ~esta_autenticado(stored)
          refresh_result == _refresh_youtube_token_internal(stored, token_response)
          youtube_account == IF expired THEN refresh_result.account ELSE stored
          served(status, outcome, mensaje, query, search, rows) ==
            [Answer(op, c, u, NoId, status, outcome, status = 200 /\ outcome = "page",
                    mensaje, {})
               EXCEPT !.account = stored.id,
                      !.token_requests = IF expired THEN refresh_result.token_requests
                                         ELSE 0,
                      !.tok = token_response,
                      !.refresh = IF ~expired THEN "none"
                                  ELSE IF refresh_result.success THEN "ok" ELSE "failed",
                      !.query = query, !.api = search.kind, !.error = search.error,
                      !.count = IF search.kind = "json" /\ ~search.error
                                THEN search.items ELSE 0,
                      !.recientes = busquedas_recientes(u, rows)]
      IN
      IF expired /\ ~refresh_result.success
      THEN /\ last' = [served(200, "error_page", "Sesión expirada", "", NoSearch, <<>>)
                         EXCEPT !.success = FALSE]
           /\ UNCHANGED <<core, library>>
      ELSE
        /\ accounts' = (accounts \ {stored}) \cup {youtube_account}
        /\ UNCHANGED <<now, users, nextUserId, nextAccountId, sessions, uploads, videos,
                       video_managers, estadisticas, videos_guardados, nextGuardadoId,
                       guardando>>
        /\ \E max \in {"12", "abc"}, query \in {"", "q"} :
             IF max = "abc"
             THEN \* int() raises ValueError outside the try: Django answers 500
                  /\ last' = served(500, "server_error", "", query, NoSearch, <<>>)
                  /\ busquedas' = busquedas
             ELSE IF query = ""
             THEN /\ last' = served(200, "page", "", query, NoSearch, busquedas)
                  /\ busquedas' = busquedas
             ELSE \E search \in SearchAnswers :
               IF search.kind = "json" /\ ~search.error
               THEN /\ Len(busquedas) < MaxBusquedas
                    /\ busquedas' = Append(busquedas,
                                           [usuario |-> u, query |-> query,
                                            resultado_count |-> search.items])
                    /\ last' = served(200, "page", "", query, search, busquedas')
               ELSE /\ busquedas' = busquedas
                    /\ last' = served(200, "page", "search_error", query, search,
                                      busquedas)

(***************************************************************************)
(* The library views over two users: user 1 has linked channel 1 with a    *)
(* token that expires at time 1, user 2 has linked channel 2 or has        *)
(* unlinked it from another browser; client 1 is user 1, client 2 is       *)
(* either of them.  User 1 has uploaded one video and saved one; the Video *)
(* row was created by the post_save signal of YouTubeVideo.                *)
(***************************************************************************)
LibraryAccount(id, t) ==
  [id |-> id, user |-> id, youtube_id |-> id, access_token |-> t.access_token,
   refresh_token |-> t.refresh_token, token_expira |-> t.token_expira,
   suscriptores |-> 5, videos_publicados |-> 2, vistas_totales |-> 9]

PublishedUpload ==
  [id |-> 1, youtube_account |-> 1, youtube_video_id |-> VideoIdOf(1),
   estado |-> "published", mensaje_error |-> "", fin_subida |-> 0]

\* users, accounts, sessions and the finished upload
People ==
  /\ now = 0
  /\ users = {[id |-> u, username |-> [base |-> u, n |-> 0]] : u \in 1..2}
  /\ \E linked \in BOOLEAN :
       accounts = {LibraryAccount(1, [access_token |-> "at2", refresh_token |-> "rt1",
                                      token_expira |-> 1])}
                  \cup (IF linked
                        THEN {LibraryAccount(2, [access_token |-> "at1",
                                                 refresh_token |-> "rt1",
                                                 token_expira |-> DefaultExpiresIn])}
                        ELSE {})
  /\ nextUserId = 3
  /\ nextAccountId = 3
  /\ \E u \in 1..2 :
       sessions = [c \in Clients |->
                     IF c = 1 THEN [user |-> 1, youtube_account_id |-> 1]
                     ELSE [user |-> u, youtube_account_id |-> u]]
  /\ videos_subidos = {PublishedUpload}
  /\ nextVideoId = 2
  /\ jobs = (1 :> [pc |-> "done", obj |-> PublishedUpload, polls |-> 1,
                   insert_calls |-> 1])
  /\ guardando = [c \in Clients |-> NotSaving]

InitPeople == People /\ last = NoRequest

OneVideo ==
  {[id |-> 1, youtube_id |-> "v1", agregado_por |-> 1, titulo |-> "t1", vistas |-> 0]}

OneGuardado ==
  {[id |-> 1, video_id |-> "v1", usuario |-> 1, titulo |-> "", vistas |-> 0,
    favorito |-> FALSE, notas |-> ""]}

InitLibrary ==
  /\ InitPeople
  /\ videos = OneVideo
  /\ video_managers = {}
  /\ estadisticas = {}
  /\ videos_guardados = OneGuardado
  /\ nextGuardadoId = 2
  /\ busquedas = <<>>

\* the views that take a video_id
NextLibrary ==
  \/ \E c \in Clients : detalle_video(c)
  \/ \E c \in Clients : actualizar_estadisticas_video(c)
  \/ \E c \in Clients : toggle_favorito_video(c)
  \/ \E c \in Clients : guardar_notas_video(c)
  \/ \E c \in Clients : eliminar_video(c)
  \/ \E c \in Clients : detalle_video_guardado(c)
  \/ \E c \in Clients : actualizar_video_guardado(c)
  \/ \E c \in Clients : toggle_favorito_video_guardado(c)
  \/ \E c \in Clients : guardar_notas_video_guardado(c)
  \/ \E c \in Clients : eliminar_video_guardado(c)
  \/ \E c \in Clients : estado_subida_video(c)
  \/ Tick

SpecLibrary == InitLibrary /\ [][NextLibrary]_vars

(***************************************************************************)
(* Saving and deleting videos found by a search.                           *)
(***************************************************************************)
InitGuardados ==
  /\ InitPeople
  /\ videos = {}
  /\ video_managers = {}
  /\ estadisticas = {}
  /\ videos_guardados = {}
  /\ nextGuardadoId = 1
  /\ busquedas = <<>>

NextGuardados ==
  \/ \E c \in Clients : guardar_video_busqueda(c)
  \/ \E c \in Clients : eliminar_video_guardado(c)
  \/ Tick

SpecGuardados == InitGuardados /\ [][NextGuardados]_vars

(***************************************************************************)
(* The favourite flags, with the admin site able to hand a Video to        *)
(* another user.                                                           *)
(***************************************************************************)
NextFavoritos ==
  \/ \E c \in Clients : toggle_favorito_video(c)
  \/ \E c \in Clients : toggle_favorito_video_guardado(c)
  \/ \E c \in Clients : guardar_notas_video(c)
  \/ \E c \in Clients : guardar_notas_video_guardado(c)
  \/ VideoAdmin

SpecFavoritos == InitLibrary /\ [][NextFavoritos]_vars

(***************************************************************************)
(* Searches: user 1 has searched nine times and user 2 once.               *)
(***************************************************************************)
EarlierSearches ==
  [i \in 1..10 |-> [usuario |-> IF i = 5 THEN 2 ELSE 1, query |-> "q",
                    resultado_count |-> 2]]

InitSearch ==
  /\ InitPeople
  /\ videos = {}
  /\ video_managers = {}
  /\ estadisticas = {}
  /\ videos_guardados = {}
  /\ nextGuardadoId = 1
  /\ busquedas = EarlierSearches

NextSearch ==
  \/ \E c \in Clients : buscar_videos(c)
  \/ Tick

SpecSearch == InitSearch /\ [][NextSearch]_vars

(***************************************************************************)
(* Properties.                                                             *)
(***************************************************************************)
CallbackJustServed == last.op = "youtube_callback"

\* the callback got a code, a token answer without 'error' and with an
\* access_token, and a channels answer with at least one item
CallbackInputsGood ==
  /\ CallbackJustServed
  /\ last.code
  /\ last.tok.kind = "json" /\ ~last.tok.error
  /\ last.tok.access_token \notin {Absent, ""}
  /\ last.chan.kind = "json" /\ last.chan.items # <<>>

\* the account of the returned channel holds the values just returned
ChannelLinked ==
  \E a \in accounts :
    /\ a.youtube_id = last.chan.items[1].id
    /\ a.access_token = last.tok.access_token
    /\ a.token_expira = now + ExpiresIn(last.tok)
    /\ a.suscriptores = StatToInt(last.chan.items[1].statistics.subscriberCount)
    /\ a.videos_publicados = StatToInt(last.chan.items[1].statistics.videoCount)
    /\ a.vistas_totales = StatToInt(last.chan.items[1].statistics.viewCount)

\* C1: a callback with a code, a good token answer and a channel item leaves
\* a YouTubeAccount of that channel holding the returned token, expiry and
\* counts, and redirects to the dashboard.
C1_CallbackLinksChannel ==
  CallbackInputsGood => (ChannelLinked /\ last.outcome = "redirect_dashboard")

\* C2: a callback with an 'error' parameter or without a 'code' renders the
\* error page, sends nothing to the token endpoint, leaves users, accounts
\* and upload records as they were and logs nobody in.
C2_DeniedCallbackTouchesNothing ==
  [][ (last'.op = "youtube_callback" /\ (last'.error \/ ~last'.code))
      => /\ last'.outcome = "error_page"
         /\ last'.token_requests = 0
         /\ UNCHANGED <<users, accounts, nextUserId, nextAccountId, sessions, uploads>>
    ]_vars

C2_Witness ==
  /\ CallbackJustServed /\ last.error /\ last.code
  /\ last.outcome = "error_page"
  /\ accounts # {}

\* the token exchange or the channel lookup of the callback failed
CallbackFailed(l) ==
  /\ l.op = "youtube_callback" /\ l.code /\ ~l.error
  /\ \/ l.tok.kind \in {"timeout", "raises"}
     \/ l.tok.error
     \/ l.tok.access_token = Absent
     \/ l.chan.kind \in {"timeout", "raises"}
     \/ l.chan.kind = "json" /\ (l.chan.error \/ l.chan.items = <<>>)

\* C3: when the token exchange or the channel lookup fails, the callback
\* ends on the error page and users, accounts, stored tokens and the
\* sessions are exactly as before.
C3_FailedExchangeTouchesNothing ==
  [][ CallbackFailed(last')
      => /\ last'.outcome = "error_page"
         /\ UNCHANGED <<users, accounts, nextUserId, nextAccountId, sessions, uploads>>
    ]_vars

C3_Witness ==
  /\ CallbackFailed(last)
  /\ last.chan.kind = "json" /\ last.chan.items = <<>>
  /\ sessions[last.client].user # NoUser
  /\ AccountsOfUser(sessions[last.client].user) # {}

\* C7: every user has at most one YouTubeAccount and every channel id
\* belongs to at most one YouTubeAccount.
C7_OneAccountPerUserAndChannel ==
  /\ \A a, b \in accounts : (a.user = b.user) => (a = b)
  /\ \A a, b \in accounts : (a.youtube_id = b.youtube_id) => (a = b)

C7_Witness ==
  /\ CallbackJustServed /\ last.detail = "save_error"
  /\ Cardinality(users) = 2
  /\ AccountsOfUser(sessions[last.client].user) # {}

\* C8: the status view reports the token valid exactly when token_expira is
\* set and the clock is strictly before it.
C8_ValidIffBeforeExpiry ==
  (last.op = "check_auth_status" /\ last.account # NoId)
  => \A a \in accounts :
       a.id = last.account
       => (last.token_valido <=> (a.token_expira # NoExpiry /\ now < a.token_expira))

C8_Witness ==
  /\ last.op = "check_auth_status"
  /\ \E a \in accounts : a.id = last.account /\ a.token_expira = now
  /\ ~last.token_valido

\* C9: after a logout of a user with a linked account the account is gone,
\* the session holds no youtube_account_id and nobody is logged in, also
\* when the revocation request fails or raises.
C9_LogoutUnlinks ==
  (last.op = "youtube_logout" /\ last.account # NoId)
  => /\ AccountsOfUser(last.user) = {}
     /\ \A a \in accounts : a.id # last.account
     /\ sessions[last.client] = AnonymousSession

C9_Witness ==
  /\ last.op = "youtube_logout" /\ last.account # NoId
  /\ last.revoke = "raises"
  /\ \A a \in accounts : a.id # last.account

\* a refresh ran for account a and met one of the failure cases of C4
RefreshMustFail(a, l) ==
  /\ l.refresh # "none" /\ l.account = a.id
  /\ \/ a.refresh_token = ""
     \/ l.tok.kind = "json" /\ l.tok.error
     \/ l.tok.kind = "raises"

SameTokens(a, b) ==
  /\ b.id = a.id
  /\ b.access_token = a.access_token
  /\ b.refresh_token = a.refresh_token
  /\ b.token_expira = a.token_expira

\* C4: a refresh (view or internal) of an account without refresh_token
\* sends no request, and that one, one answered with an 'error' field and
\* one whose request raises all report failure and leave the stored
\* access_token, refresh_token and token_expira as they were.
C4_FailedRefreshKeepsTokens ==
  [][ \A a \in accounts :
        RefreshMustFail(a, last')
        => /\ last'.refresh = "failed"
           /\ last'.op = "refresh_youtube_token" => ~last'.success
           /\ \E b \in accounts' : SameTokens(a, b)
           /\ a.refresh_token = "" => last'.token_requests = 0
    ]_vars

C4_Witness ==
  /\ last.op = "subir_video" /\ last.refresh = "failed"
  /\ last.tok.kind = "json" /\ last.tok.error
  /\ \E a \in accounts : a.id = last.account /\ a.refresh_token # ""

\* the refresh stored the answer in account a and touched nothing else
Refreshed(a, b, tok) ==
  b = [a EXCEPT !.access_token = tok.access_token,
                !.token_expira = now + ExpiresIn(tok)]

\* C5 as stated: every refresh answered without an 'error' field reports
\* success and stores the answer's access_token and now + expires_in,
\* leaving refresh_token, youtube_id, owner and statistics as they were.
C5_AnswerWithoutErrorIsStored ==
  [][ \A a \in accounts :
        (last'.refresh # "none" /\ last'.account = a.id
         /\ last'.tok.kind = "json" /\ ~last'.tok.error)
        => /\ last'.refresh = "ok"
           /\ last'.op = "refresh_youtube_token" => last'.success
           /\ \E b \in accounts' : Refreshed(a, b, last'.tok)
    ]_vars

\* C5 amended: a refresh answered without an 'error' field, with an
\* access_token and with expires_in absent or a number reports success and
\* stores the answer's access_token and now + expires_in (3600 s when
\* absent), leaving refresh_token, youtube_id, owner and statistics as they
\* were.
C5_UsableAnswerIsStored ==
  [][ \A a \in accounts :
        (last'.refresh # "none" /\ last'.account = a.id
         /\ last'.tok.kind = "json" /\ ~last'.tok.error
         /\ last'.tok.access_token # Absent /\ last'.tok.expires_in # ExpBad)
        => /\ last'.refresh = "ok"
           /\ last'.op = "refresh_youtube_token" => last'.success
           /\ \E b \in accounts' : Refreshed(a, b, last'.tok)
    ]_vars

C5_Witness ==
  /\ last.op = "subir_video" /\ last.refresh = "ok"
  /\ last.tok.expires_in = ExpAbsent
  /\ \E a \in accounts :
       /\ a.id = last.account
       /\ a.access_token = "at1" /\ a.token_expira = now + DefaultExpiresIn
       /\ a.refresh_token = "rt1"

\* C6: a refresh sends at most one request to the token endpoint and an
\* upload job calls videos.insert at most once.
C6_NoRetry ==
  /\ last.refresh # "none" => last.token_requests <= 1
  /\ \A j \in DOMAIN jobs : jobs[j].insert_calls <= 1

C6_Witness ==
  \E j \in DOMAIN jobs :
    /\ jobs[j].pc = "done" /\ jobs[j].insert_calls = 1
    /\ jobs[j].obj.estado = "failed" /\ jobs[j].obj.youtube_video_id = ""

\* C10: every POST to procesar_subida_ajax by a user with a linked account,
\* an unexpired token and a valid file creates a new VideoSubido in state
\* 'pending', starts one background upload and answers success with the
\* record's id, whatever upload records already exist.
C10_EveryValidUploadIsAccepted ==
  (/\ last.op = "procesar_subida_ajax" /\ last.method = "POST"
   /\ last.file.present /\ _validar_archivo_video(last.file)
   /\ \E a \in accounts : a.id = last.account /\ esta_autenticado(a))
  => /\ last.success /\ last.status = 200
     /\ last.started = 1
     /\ \E v \in videos_subidos :
          v.id = last.video /\ v.estado = "pending" /\ v.youtube_account = last.account
     /\ last.video \in DOMAIN jobs

\* the condition of C11 on a file: at most 128*1024*1024 bytes and one of the
\* six extensions, whatever the case of its letters
Acceptable(f) ==
  /\ f.present
  /\ f.size <= 134217728
  /\ f.ext \in {".mp4", ".mov", ".avi", ".wmv", ".flv", ".webm",
                ".MP4", ".MOV", ".AVI", ".WMV", ".FLV", ".WEBM"}

\* _procesar_subida_video ran: subir_video got a POST and passed the token check
FormPosted(l) == l.op = "subir_video" /\ l.method = "POST"

\* C11 as stated: an upload is started only for an acceptable file; every
\* request to procesar_subida_ajax with another file or without one is
\* answered 400, _procesar_subida_video re-renders the form with an error,
\* and neither creates a record or starts a thread.
C11_UnacceptableFileAnswers400 ==
  [][ /\ last'.started = 1 => Acceptable(last'.file)
      /\ (last'.op = "procesar_subida_ajax" /\ ~Acceptable(last'.file))
         => (last'.status = 400 /\ UNCHANGED uploads)
      /\ (FormPosted(last') /\ ~Acceptable(last'.file))
         => (last'.outcome = "form_error" /\ UNCHANGED uploads)
    ]_vars

\* the request reached the file checks of procesar_subida_ajax: a POST of a
\* logged-in user whose linked account holds an unexpired token
AjaxReachedFileCheck(l) ==
  /\ l.op = "procesar_subida_ajax" /\ l.method = "POST"
  /\ l.outcome # "redirect_login"
  /\ \E a \in accounts : a.id = l.account /\ esta_autenticado(a)

\* C11 amended: an upload is started only for an acceptable file; a POST to
\* procesar_subida_ajax that reaches the file checks with another file or
\* without one is answered 400, _procesar_subida_video re-renders the form
\* with an error, and neither creates a record or starts a thread; every
\* other request to procesar_subida_ajax without an acceptable file is
\* refused as well (302, 400, 401 or 405) and creates nothing.
C11_UnacceptableFileIsRefused ==
  [][ /\ last'.started = 1 => Acceptable(last'.file)
      /\ (AjaxReachedFileCheck(last') /\ ~Acceptable(last'.file))
         => (last'.status = 400 /\ UNCHANGED uploads)
      /\ (last'.op = "procesar_subida_ajax" /\ ~Acceptable(last'.file))
         => (last'.status \in {302, 400, 401, 405} /\ UNCHANGED uploads)
      /\ (FormPosted(last') /\ ~Acceptable(last'.file))
         => (last'.outcome = "form_error" /\ UNCHANGED uploads)
    ]_vars

C11_Witness ==
  /\ AjaxReachedFileCheck(last)
  /\ last.file.present /\ last.file.size = MaxUploadSize + 1
  /\ last.status = 400
  /\ videos_subidos = {} /\ jobs = <<>>

\* the step of job j just taken raised an exception
JobRaised(l, j) ==
  /\ l.op = "_subir_video_youtube" /\ l.video = j
  /\ l.detail \in {"prepare_raises", "insert_raises", "raises", "save_raised"}

\* C12: when a step of an upload job raises, the job is over and its record
\* is stored with estado 'failed', the exception text in mensaje_error and
\* fin_subida set.
C12_RaisedJobEndsFailed ==
  [][ \A j \in DOMAIN jobs :
        JobRaised(last', j)
        => /\ jobs'[j].pc = "done"
           /\ \E v \in videos_subidos' :
                /\ v.id = j /\ v.estado = "failed"
                /\ v.mensaje_error = "exception" /\ v.fin_subida # NoTime
    ]_vars

\* the moves of estado that C17 allows
Forward(a, b) ==
  \/ a = b
  \/ <<a, b>> \in { <<"pending", "uploading">>, <<"uploading", "processing">>,
                    <<"processing", "published">>, <<"uploading", "failed">>,
                    <<"processing", "failed">> }

\* C17: the estado of a stored VideoSubido only moves along pending ->
\* uploading -> processing -> published, or to failed from uploading or
\* processing, and a record in processing or published has a non-empty
\* youtube_video_id.
C17_EstadoMovesForward ==
  /\ [][ \A v \in videos_subidos, w \in videos_subidos' :
           v.id = w.id => Forward(v.estado, w.estado) ]_vars
  /\ [](\A v \in videos_subidos :
          v.estado \in {"processing", "published"} => v.youtube_video_id # "")

C17_Witness ==
  \E v \in videos_subidos :
    /\ v.estado = "published" /\ v.youtube_video_id = VideoIdOf(v.id)
    /\ jobs[v.id].pc = "done" /\ jobs[v.id].polls = 2

JobOver(j) == j \in DOMAIN jobs /\ jobs[j].pc \in {"done", "crashed"}

\* C18: an upload job asks for the video's status at most 30 times, and
\* every started job comes to an end.
C18_PollsBoundedAndJobEnds ==
  /\ [](\A j \in DOMAIN jobs : jobs[j].polls <= 30)
  /\ \A j \in 1..MaxVideoId : (j \in DOMAIN jobs) ~> JobOver(j)

C18_Witness ==
  \E j \in DOMAIN jobs :
    /\ jobs[j].pc = "done" /\ jobs[j].polls = 30
    /\ jobs[j].obj.estado = "processing" /\ jobs[j].obj.fin_subida # NoTime
    /\ last.detail = "uploaded"

\* C19: no VideoSubido of a deleted account is ever stored, also when an
\* upload of that account saves its record after the deletion, and no
\* upload thread ends with an unhandled exception.
C19_LogoutLeavesNoRecordAndNoCrash ==
  /\ \A v \in videos_subidos : \E a \in accounts : a.id = v.youtube_account
  /\ \A j \in DOMAIN jobs : jobs[j].pc # "crashed"

VideoOps ==
  {"detalle_video", "actualizar_estadisticas_video", "toggle_favorito_video",
   "guardar_notas_video", "eliminar_video"}

GuardadoOps ==
  {"detalle_video_guardado", "actualizar_video_guardado",
   "toggle_favorito_video_guardado", "guardar_notas_video_guardado",
   "eliminar_video_guardado"}

NotasOps == {"guardar_notas_video", "guardar_notas_video_guardado"}

\* the record that request l names exists and belongs to somebody else
NotOwner(l) ==
  /\ l.user # NoUser
  /\ \/ /\ l.op \in VideoOps
        /\ \E v \in videos : v.id = l.video /\ v.agregado_por # l.user
     \/ /\ l.op \in GuardadoOps
        /\ \E g \in videos_guardados : g.id = l.video /\ g.usuario # l.user
     \/ /\ l.op = "estado_subida_video"
        /\ \E v \in videos_subidos :
             v.id = l.video /\ \A a \in accounts : a.id = v.youtube_account => a.user # l.user

\* C13 as stated: every view that takes a video_id answers a user who does
\* not own the record with 'Video no encontrado', shows nothing of the record
\* and changes no data.
C13_NonOwnerGetsNotFound ==
  [][ NotOwner(last')
      => /\ last'.mensaje = NotFound
         /\ last'.shown = {}
         /\ UNCHANGED <<core, library>>
    ]_vars

\* C13: every view that takes a video_id answers a user who does not own the
\* record with 'Video no encontrado', or, for the two views that store notes
\* when the request is not a POST, with 405 'Método no permitido'; either
\* way it shows nothing of the record and changes no data.
C13_NonOwnerLearnsAndChangesNothing ==
  [][ NotOwner(last')
      => /\ \/ last'.mensaje = NotFound
            \/ /\ last'.op \in NotasOps /\ last'.method # "POST"
               /\ last'.status = 405 /\ last'.mensaje = MethodNotAllowed
         /\ last'.shown = {}
         /\ ~last'.success
         /\ UNCHANGED <<core, library>>
    ]_vars

C13_Witness ==
  /\ last.op = "eliminar_video" /\ last.user = 2 /\ last.mensaje = NotFound
  /\ \E v \in videos : v.id = last.video /\ v.agregado_por = 1
  /\ \E m \in video_managers : m.video = last.video /\ m.notas = "n"

\* the user of request l already has the video the request names
AlreadyHas(l) ==
  \E g \in videos_guardados : g.video_id = l.video_id /\ g.usuario = l.user

\* request l of guardar_video_busqueda has been answered
SaveAnswered(l) == l.op = "guardar_video_busqueda" /\ l.outcome = "json"

\* C14: no two VideoGuardado rows share (video_id, usuario), however the
\* save and delete requests interleave; a save request for a video the user
\* already has is answered success=false with 'Ya tienes este video
\* guardado', also success=false when the video was saved by a concurrent
\* request after this one had looked; a request without video_id is answered
\* success=false; none of them creates a row.
C14_SavedOncePerUser ==
  /\ [](\A g, h \in videos_guardados :
          g.video_id = h.video_id /\ g.usuario = h.usuario => g = h)
  /\ [][ SaveAnswered(last')
         => /\ AlreadyHas(last')
               => /\ ~last'.success
                  /\ UNCHANGED <<videos_guardados, nextGuardadoId>>
                  /\ guardando[last'.client].pc = "idle" /\ last'.method = "POST"
                     => last'.mensaje = AlreadySaved
            /\ last'.video_id \notin YouTubeIds
               => /\ ~last'.success
                  /\ UNCHANGED <<videos_guardados, nextGuardadoId>>
       ]_vars

\* two concurrent saves of one video by one user: the second create is
\* refused by the table
C14_Witness ==
  /\ SaveAnswered(last) /\ last.status = 500 /\ last.api # "raises"
  /\ AlreadyHas(last)
  /\ Cardinality(videos_guardados) = 1

\* the favourite flag of the record that toggle request l names, as stored
StoredFlag(l, managers, guardados) ==
  IF l.op = "toggle_favorito_video"
  THEN {m.favorito : m \in {n \in managers :
                              n.video = l.video /\ n.usuario_propietario = l.user}}
  ELSE {g.favorito : g \in {h \in guardados : h.id = l.video /\ h.usuario = l.user}}

\* the user of toggle request l owns the record it names
TogglesOwn(l) ==
  \/ l.op = "toggle_favorito_video" /\ OwnVideo(l.user, l.video) # {}
  \/ l.op = "toggle_favorito_video_guardado" /\ OwnGuardado(l.user, l.video) # {}

\* the flag before the request: False when the Video has no VideoManager yet
FlagBefore(l) ==
  IF StoredFlag(l, video_managers, videos_guardados) = {} THEN {FALSE}
  ELSE StoredFlag(l, video_managers, videos_guardados)

\* the rows other than the one the request flips, and the other fields of
\* that one
RestOf(l, managers, guardados) ==
  <<{m \in managers : ~(m.video = l.video /\ l.op = "toggle_favorito_video")},
    {[m EXCEPT !.favorito = FALSE] : m \in managers},
    {g \in guardados : ~(g.id = l.video /\ l.op = "toggle_favorito_video_guardado")},
    {[g EXCEPT !.favorito = FALSE] : g \in guardados}>>

\* C15: a toggle request of the owner flips the stored flag, answers with
\* the flag as stored afterwards and changes nothing else, except that a
\* missing VideoManager is created with favorito False before the flip (two
\* toggles in a row therefore restore the flag).
C15_ToggleFlipsTheFlag ==
  [][ TogglesOwn(last')
      => /\ last'.status = 200 /\ last'.success
         /\ StoredFlag(last', video_managers', videos_guardados') = {last'.favorito}
         /\ FlagBefore(last') = {~last'.favorito}
         /\ UNCHANGED <<core, videos, estadisticas, nextGuardadoId, busquedas, guardando>>
         /\ LET with_manager ==
                  IF last'.op = "toggle_favorito_video"
                     /\ ManagerOf([id |-> last'.video], last'.user) = {}
                  THEN video_managers \cup {NewManager([id |-> last'.video], last'.user)}
                  ELSE video_managers
            IN RestOf(last', with_manager, videos_guardados)
               = RestOf(last', video_managers', videos_guardados')
    ]_vars

\* the positions of u's rows in the table
OwnSearches(u, rows) == {i \in 1..Len(rows) : rows[i].usuario = u}

\* list shows the most recent searches of u, newest first, at most ten
MostRecentOf(list, u, rows) ==
  /\ Len(list) <= 10
  /\ \A k \in 1..Len(list) : list[k] \in OwnSearches(u, rows)
  /\ \A k \in 1..(Len(list) - 1) : list[k] > list[k + 1]
  /\ \A i \in OwnSearches(u, rows) :
       \/ \E k \in 1..Len(list) : list[k] = i
       \/ Len(list) = 10 /\ \A k \in 1..Len(list) : list[k] > i

\* C16: buscar_videos adds one BusquedaVideo of the requesting user, with
\* resultado_count the number of items returned, exactly when the query is
\* not empty and the search answered without an 'error' field; otherwise it
\* adds none.  The recent searches on its page are the (at most) ten most
\* recent ones of that user and nobody else's.
C16_SearchIsRecordedOnSuccess ==
  [][ last'.op = "buscar_videos" /\ last'.user # NoUser
      => /\ IF last'.query # "" /\ last'.api = "json" /\ ~last'.error
            THEN busquedas' = Append(busquedas,
                                     [usuario |-> last'.user, query |-> last'.query,
                                      resultado_count |-> last'.count])
            ELSE busquedas' = busquedas
         /\ last'.outcome = "page"
            => MostRecentOf(last'.recientes, last'.user, busquedas')
    ]_vars

\* user 1 has searched eleven times: the page leaves out the oldest search
\* and the one of user 2
C16_Witness ==
  /\ last.op = "buscar_videos" /\ last.user = 1 /\ last.outcome = "page"
  /\ Cardinality(OwnSearches(1, busquedas)) = 11
  /\ Len(last.recientes) = 10 /\ last.recientes[1] = Len(busquedas)
  /\ last.recientes[10] = 2
  /\ busquedas[Len(busquedas)].resultado_count = last.count

(***************************************************************************)
(* _formatear_duracion_iso and _formatear_duracion.  A string is the       *)
(* sequence of its characters.                                             *)
(***************************************************************************)
Digits == <<"0", "1", "2", "3", "4", "5", "6", "7", "8", "9">>

IsDigit(ch) == \E d \in 1..10 : Digits[d] = ch

DigitValue(ch) == (CHOOSE d \in 1..10 : Digits[d] = ch) - 1

\* int() of a run of digits; int(None or 0) is 0
RECURSIVE int(_)
int(run) ==
  IF run = <<>> THEN 0
  ELSE 10 * int(SubSeq(run, 1, Len(run) - 1)) + DigitValue(run[Len(run)])

\* str() of a natural number
RECURSIVE str(_)
str(n) == IF n < 10 THEN <<Digits[n + 1]>> ELSE Append(str(n \div 10), Digits[(n % 10) + 1])

\* f"{n:02d}"
Format02d(n) == IF n < 10 THEN <<"0">> \o str(n) ELSE str(n)

\* the length of the run of digits of s that starts at position p
RECURSIVE DigitRun(_, _)
DigitRun(s, p) == IF p <= Len(s) /\ IsDigit(s[p]) THEN 1 + DigitRun(s, p + 1) ELSE 0

\* (?:(\d+)X)? tried at position p: the group (empty when it takes no part in
\* the match) and the position after it
OptionalGroup(s, p, letter) ==
  LET n == DigitRun(s, p) IN
  IF n > 0 /\ p + n <= Len(s) /\ s[p + n] = letter
  THEN [group |-> SubSeq(s, p, p + n - 1), next |-> p + n + 1]
  ELSE [group |-> <<>>, next |-> p]

\* re.search(r'(\d+)X', s): group 1 of the leftmost match, empty for None
Search(s, letter) ==
  LET starts == {i \in 1..Len(s) :
                   /\ DigitRun(s, i) > 0
                   /\ i + DigitRun(s, i) <= Len(s)
                   /\ s[i + DigitRun(s, i)] = letter}
  IN IF starts = {} THEN <<>>
     ELSE LET i == CHOOSE a \in starts : \A b \in starts : a <= b
          IN SubSeq(s, i, i + DigitRun(s, i) - 1)

\* _formatear_duracion_iso without the test on the hours
_formatear_duracion_iso_AlwaysHours(duracion_iso) ==
  IF duracion_iso = <<>> THEN <<>>
  ELSE IF ~(Len(duracion_iso) >= 2 /\ duracion_iso[1] = "P" /\ duracion_iso[2] = "T")
  THEN duracion_iso
  ELSE
    LET H == OptionalGroup(duracion_iso, 3, "H")
        M == OptionalGroup(duracion_iso, H.next, "M")
        S == OptionalGroup(duracion_iso, M.next, "S")
    IN Format02d(int(H.group)) \o <<":">> \o Format02d(int(M.group)) \o <<":">>
       \o Format02d(int(S.group))

_formatear_duracion_iso(duracion_iso) ==
  IF duracion_iso = <<>> THEN <<>>
  ELSE IF ~(Len(duracion_iso) >= 2 /\ duracion_iso[1] = "P" /\ duracion_iso[2] = "T")
  THEN \* re.match finds nothing
       duracion_iso
  ELSE
    LET H == OptionalGroup(duracion_iso, 3, "H")
        M == OptionalGroup(duracion_iso, H.next, "M")
        S == OptionalGroup(duracion_iso, M.next, "S")
        horas == int(H.group)
        minutos == int(M.group)
        segundos == int(S.group)
    IN IF horas > 0
       THEN Format02d(horas) \o <<":">> \o Format02d(minutos) \o <<":">>
            \o Format02d(segundos)
       ELSE Format02d(minutos) \o <<":">> \o Format02d(segundos)

_formatear_duracion(duracion_iso) ==
  IF duracion_iso = <<>> THEN <<"N", "/", "A">>
  ELSE
    LET h == int(Search(duracion_iso, "H"))
        m == int(Search(duracion_iso, "M"))
        s == int(Search(duracion_iso, "S"))
    IN IF h > 0
       THEN Format02d(h) \o <<":">> \o Format02d(m) \o <<":">> \o Format02d(s)
       ELSE Format02d(m) \o <<":">> \o Format02d(s)

\* the numbers a part of a duration is tried with: as written, its value
\* and the value as two digits
DurationParts ==
  {[text |-> <<"0">>, value |-> 0, padded |-> <<"0", "0">>],
   [text |-> <<"1">>, value |-> 1, padded |-> <<"0", "1">>],
   [text |-> <<"0", "7">>, value |-> 7, padded |-> <<"0", "7">>],
   [text |-> <<"1", "5">>, value |-> 15, padded |-> <<"1", "5">>],
   [text |-> <<"3", "0">>, value |-> 30, padded |-> <<"3", "0">>],
   [text |-> <<"1", "0", "0">>, value |-> 100, padded |-> <<"1", "0", "0">>]}

AbsentPart == [text |-> <<>>, value |-> 0, padded |-> <<"0", "0">>]

Part(p, letter) == IF p = AbsentPart THEN <<>> ELSE Append(p.text, letter)

\* PT[h]H[m]M[s]S
Duration(h, m, s) == <<"P", "T">> \o Part(h, "H") \o Part(m, "M") \o Part(s, "S")

\* strings that are not of that form
OtherDurations ==
  {<<>>,
   <<"1", "5", "M", "3", "0", "S">>,
   <<"P", "T", "1", "H", "3", "0">>,
   <<"P", "1", "D", "T", "2", "H">>,
   <<"P", "T", "3", "0", "S", "1", "5", "M">>}

DurationInputs ==
  {Duration(h, m, s) : h, m, s \in DurationParts \cup {AbsentPart}} \cup OtherDurations

Unformatted == <<"?">>

\* a duration has arrived from the API and nothing has been formatted yet
InitDuracion ==
  /\ People
  /\ LibraryEmpty
  /\ \E duracion_iso \in DurationInputs :
       last = [NoRequest EXCEPT !.op = "duracion", !.duracion_iso = duracion_iso,
                                !.formateada = Unformatted, !.legible = Unformatted]

DuracionOps == {"duracion", "_formatear_duracion_iso", "_formatear_duracion"}

\* _obtener_info_video_youtube formats the duration of the item
FormatearDuracionIso ==
  /\ last.op \in DuracionOps
  /\ last' = [last EXCEPT !.op = "_formatear_duracion_iso",
                          !.formateada = _formatear_duracion_iso(last.duracion_iso)]
  /\ UNCHANGED <<core, library>>

\* the helper of the library views applied to the same string
FormatearDuracion ==
  /\ last.op \in DuracionOps
  /\ last' = [last EXCEPT !.op = "_formatear_duracion",
                          !.legible = _formatear_duracion(last.duracion_iso)]
  /\ UNCHANGED <<core, library>>

NextDuracion ==
  \/ FormatearDuracionIso
  \/ FormatearDuracion

SpecDuracion == InitDuracion /\ [][NextDuracion]_vars

\* C20: for an input PT[h]H[m]M[s]S, whose parts may be absent and then
\* count as 0, _formatear_duracion_iso returns HH:MM:SS when h > 0 and MM:SS
\* otherwise, every part with at least two digits; it returns the empty
\* string for the empty input; _formatear_duracion returns the same string
\* for every input of that form.
C20_DuracionIsFormatted ==
  /\ \A h, m, s \in DurationParts \cup {AbsentPart} :
       last.duracion_iso = Duration(h, m, s)
       => LET expected ==
                IF h.value > 0
                THEN h.padded \o <<":">> \o m.padded \o <<":">> \o s.padded
                ELSE m.padded \o <<":">> \o s.padded
          IN /\ last.formateada \in {Unformatted, expected}
             /\ last.legible \in {Unformatted, expected}
  /\ last.op \in DuracionOps /\ last.duracion_iso = <<>>
     => last.formateada \in {Unformatted, <<>>}

C20_Witness ==
  /\ last.duracion_iso = <<"P", "T", "1", "H", "1", "5", "M", "3", "0", "S">>
  /\ last.formateada = <<"0", "1", ":", "1", "5", ":", "3", "0">>
  /\ last.legible = last.formateada

====
